---------------------------- MODULE Spec2Model ----------------------------
(***************************************************************************)
(* Note Hub: authentication, authorization and token lifecycle.            *)
(*                                                                         *)
(* State: the users and password_reset_tokens tables, one Flask session    *)
(* and one in-flight request per client, the single database write         *)
(* transaction, and the latest response of each group of routes.           *)
(*                                                                         *)
(* Time is one clock, now, counted in hours.  The TOTP time step (30 s) is  *)
(* shorter than a tick: the one-time code of every tick differs from that  *)
(* of the tick before, and requests of one tick see the same code.         *)
(*                                                                         *)
(* Database: SQLAlchemy sessions with autoflush=False (database.py 99-103) *)
(* on SQLite (the default, config.py 43-45) or MySQL/InnoDB.  A SELECT     *)
(* takes no lock that outlives the statement.  The first UPDATE or INSERT  *)
(* of a session opens the write transaction, which is held until COMMIT or *)
(* rollback; a second writer waits and may give up with an error.          *)
(* ORM attribute changes are sent only by the flush inside s.commit().     *)
(***************************************************************************)
EXTENDS Integers, Sequences, FiniteSets, TLC

VARIABLES
    now,           \* datetime.now(timezone.utc), in hours
    users,         \* table users: id -> row
    sessions,      \* Flask session of each client
    reset_tokens,  \* table password_reset_tokens: sequence of rows, id = index
    req,           \* the in-flight request of each client (SQLAlchemy session state)
    db_writer,     \* client whose transaction holds the write lock, 0 if none
    redeemed,      \* history: per token row, the completed resets that presented it
    reset_resp,    \* the latest response of /reset-password/<token>
    login_resp,    \* the latest response of a login route
    login_trace,   \* history of the session's login attempt (password check, 2FA check)
    jwt_resp,      \* the latest response of a bearer-token endpoint
    invitations,   \* table invitations: sequence of rows, id = index
    valid_resp,    \* the latest result of is_valid() of each token model
    reg,           \* the in-flight /register or /profile/edit request of each client
    reg_resp,      \* the response of each client's latest /register, /profile or /admin request
    notes,         \* table notes: id -> row
    shares,        \* table share_notes: id -> row
    share_req,     \* the in-flight POST /note/<id>/share of each client
    note_resp,     \* the latest response of a note route
    user_cache,    \* session["_cached_user_data"] of each client
    policy_resp    \* the latest call of password_policy_errors: its argument and result

vars == <<now, users, sessions, reset_tokens, req, db_writer, redeemed,
          reset_resp, login_resp, login_trace, jwt_resp, invitations, valid_resp,
          reg, reg_resp, notes, shares, share_req, note_resp, user_cache,
          policy_resp>>

\* The state of the invitation and validity-check part.
valid_vars == <<invitations, valid_resp>>

\* The state of the registration and profile routes.
reg_vars == <<reg, reg_resp>>

\* The state of the note routes.
note_vars == <<notes, shares, share_req, note_resp>>

\* ------------------------------------------------------------------ bounds
MaxTime == 1
MaxTokens == 2

Clients == {1, 2}
UserIds == {1, 2}

\* ----------------------------------------------------------- None values
\* Python None of an integer id (falsy, like 0), and NULL of a DateTime column.
NoId == 0
NoTime == 0 - 1

\* ---------------------------------------------------------------- passwords
\* A password is the feature vector password_policy_errors reads, with a name.
PASSWORD_POLICY_MIN_LENGTH == 12

PwAlice == [name |-> "Alice#Old2025x", len |-> 14, lower |-> TRUE, upper |-> TRUE,
            digit |-> TRUE, punct |-> TRUE, space |-> FALSE]
PwBob   == [name |-> "Bob#Old2025xyz", len |-> 14, lower |-> TRUE, upper |-> TRUE,
            digit |-> TRUE, punct |-> TRUE, space |-> FALSE]
PwNewA  == [name |-> "Str0ng!Pass#2025", len |-> 16, lower |-> TRUE, upper |-> TRUE,
            digit |-> TRUE, punct |-> TRUE, space |-> FALSE]
PwShort == [name |-> "Sh0rt!pw", len |-> 8, lower |-> TRUE, upper |-> TRUE,
            digit |-> TRUE, punct |-> TRUE, space |-> FALSE]

PwNoDigit == [name |-> "NoDigits!Password", len |-> 17, lower |-> TRUE, upper |-> TRUE,
              digit |-> FALSE, punct |-> TRUE, space |-> FALSE]
PwSpace == [name |-> "Str0ng! Pass 2025", len |-> 17, lower |-> TRUE, upper |-> TRUE,
            digit |-> TRUE, punct |-> TRUE, space |-> TRUE]

NewPasswords == {PwNewA, PwShort}
\* What a caller can submit as a new password: one the policy accepts and
\* three it rejects.
PasswordInputs == {PwNewA, PwShort, PwNoDigit, PwSpace}
LoginPasswords == {PwAlice, PwBob}

\* None as a password argument, and the empty string `password or ""` makes
\* of it.
PyNonePassword == [none |-> TRUE]
EmptyString == [name |-> "", len |-> 0, lower |-> FALSE, upper |-> FALSE,
                digit |-> FALSE, punct |-> FALSE, space |-> FALSE]

\* A password_policy_errors that does not look for whitespace.
password_policy_errors_without_whitespace(password) ==
    LET p == IF password = PyNonePassword THEN EmptyString ELSE password
        e1 == IF p.len < PASSWORD_POLICY_MIN_LENGTH
              THEN <<"Password must be at least 12 characters long.">> ELSE <<>>
        e2 == IF ~p.lower THEN <<"Password must include at least one lowercase letter.">> ELSE <<>>
        e3 == IF ~p.upper THEN <<"Password must include at least one uppercase letter.">> ELSE <<>>
        e4 == IF ~p.digit THEN <<"Password must include at least one number.">> ELSE <<>>
        e5 == IF ~p.punct THEN <<"Password must include at least one special character.">> ELSE <<>>
    IN  e1 \o e2 \o e3 \o e4 \o e5

\* security.py password_policy_errors: every rule checked, in this order.
password_policy_errors(password) ==
    LET p == IF password = PyNonePassword THEN EmptyString ELSE password
        e1 == IF p.len < PASSWORD_POLICY_MIN_LENGTH
              THEN <<"Password must be at least 12 characters long.">> ELSE <<>>
        e2 == IF ~p.lower THEN <<"Password must include at least one lowercase letter.">> ELSE <<>>
        e3 == IF ~p.upper THEN <<"Password must include at least one uppercase letter.">> ELSE <<>>
        e4 == IF ~p.digit THEN <<"Password must include at least one number.">> ELSE <<>>
        e5 == IF ~p.punct THEN <<"Password must include at least one special character.">> ELSE <<>>
        e6 == IF p.space THEN <<"Password cannot contain whitespace characters.">> ELSE <<>>
    IN  e1 \o e2 \o e3 \o e4 \o e5 \o e6

\* werkzeug generate_password_hash / check_password_hash: one-way, matches
\* exactly the password it was generated from.
generate_password_hash(p) == <<"pbkdf2", p.name>>
check_password(user, p) == user.password_hash = generate_password_hash(p)

\* A set_password without enforce_password_policy: it hashes what it is given.
set_password_unchecked(user, p) ==
    [raised |-> FALSE, error |-> "",
     user |-> [user EXCEPT !.password_hash = generate_password_hash(p)]]

\* models.py User.set_password: enforce_password_policy raises ValueError with
\* the first error before the hash is assigned.
set_password(user, p) ==
    LET errors == password_policy_errors(p)
    IN  IF errors # <<>>
        THEN [raised |-> TRUE, error |-> errors[1], user |-> user]
        ELSE [raised |-> FALSE, error |-> "",
              user |-> [user EXCEPT !.password_hash = generate_password_hash(p)]]


\* ------------------------------------------------------------------- TOTP
TotpCodes == 0 .. 1

\* pyotp.TOTP(secret).at(step): the one-time code of a time step.
TotpAt(secret, step) == (secret + step) % Cardinality(TotpCodes)

\* models.py User.verify_totp: no secret verifies anything; otherwise
\* pyotp.TOTP.verify with its default valid_window=0, the current step only.
verify_totp(user, code, t) ==
    IF user.totp_secret = NoId THEN TRUE
    ELSE code = TotpAt(user.totp_secret, t)

\* ------------------------------------------------------------------ users
Usernames == {"alice", "bob", "nobody"}

InitUsers ==
    [u \in UserIds |->
        IF u = 1
        THEN [id |-> 1, username |-> "alice", email |-> "alice@example.com",
              password_hash |-> generate_password_hash(PwAlice),
              totp_secret |-> NoId, last_login |-> NoTime, theme |-> "light"]
        ELSE [id |-> 2, username |-> "bob", email |-> "bob@example.com",
              password_hash |-> generate_password_hash(PwBob),
              totp_secret |-> 1, last_login |-> 0, theme |-> "light"]]

\* select(User).where(User.username == name).scalar_one_or_none(): the id, or NoId
UserByUsername(name) ==
    IF \E u \in DOMAIN users : users[u].username = name
    THEN CHOOSE u \in DOMAIN users : users[u].username = name
    ELSE NoId

\* utils.py current_user: the session's user, if it is stored
current_user(c) ==
    IF sessions[c].user_id # NoId /\ sessions[c].user_id \in DOMAIN users
    THEN sessions[c].user_id ELSE NoId

\* No "_cached_user_data" in the session.
NoCache == [id |-> NoId, username |-> "", email |-> "", theme |-> "", totp_secret |-> NoId]

\* utils.py cache_user_in_session: the entry it stores for a users row
cache_user_in_session(user) ==
    [id |-> user.id, username |-> user.username, email |-> user.email,
     theme |-> user.theme, totp_secret |-> user.totp_secret]

\* utils.py current_user: the cache entry of session c after the call. An
\* entry with the session's user id is returned as it is; otherwise the row
\* is read and cached.
CachedAfterCurrentUser(c) ==
    IF sessions[c].user_id = NoId THEN user_cache[c]
    ELSE IF user_cache[c] # NoCache /\ user_cache[c].id = sessions[c].user_id
    THEN user_cache[c]
    ELSE IF sessions[c].user_id \in DOMAIN users
    THEN cache_user_in_session(users[sessions[c].user_id])
    ELSE user_cache[c]

\* A request of session c went through current_user().
CurrentUserCalled(c) == user_cache' = [user_cache EXCEPT ![c] = CachedAfterCurrentUser(c)]

\* utils.py current_user: the user object the call returns to the view, with
\* the attributes of the cache entry.
CurrentUserObject(c) == CachedAfterCurrentUser(c)

\* --------------------------------------------- password reset: the ledger
\* timedelta(hours=1)
ResetTokenTTL == 1

\* A validity check that forgets the used flag.
is_valid_expiry_only(row, t) == t < row.expires_at

\* A validity check of an invitation that still accepts the instant of expiry.
Invitation_is_valid_inclusive(row, t) ==
    IF row.used THEN FALSE
    ELSE t <= row.expires_at

\* models.py Invitation.is_valid at time t.  expires_at holds the UTC instant
\* that profile_routes.py 105 computed from datetime.now(timezone.utc); read
\* back without tzinfo, replace(tzinfo=utc) names the same instant.
Invitation_is_valid(row, t) ==
    IF row.used THEN FALSE
    ELSE t < row.expires_at

\* models.py PasswordResetToken.is_valid at time t
is_valid(row, t) ==
    IF row.used THEN FALSE
    ELSE t < row.expires_at

\* select(PasswordResetToken).where(token == tok).scalar_one_or_none(): row id or NoId
TokenRow(tok) ==
    IF \E i \in DOMAIN reset_tokens : reset_tokens[i].token = tok
    THEN CHOOSE i \in DOMAIN reset_tokens : reset_tokens[i].token = tok
    ELSE NoId

\* An issue that leaves the user's earlier tokens as they are.
InvalidateNothing(rows, uid) == rows

\* UPDATE password_reset_tokens SET used = 1 WHERE user_id = :user_id AND used = 0
InvalidateTokens(rows, uid) ==
    [i \in DOMAIN rows |->
        IF rows[i].user_id = uid /\ ~rows[i].used
        THEN [rows[i] EXCEPT !.used = TRUE] ELSE rows[i]]

\* PasswordResetToken(user_id, token=secrets.token_urlsafe(32), expires_at):
\* the token string is fresh, here the number of the row.
NewResetToken(rows, uid, expires_at) ==
    [id |-> Len(rows) + 1, user_id |-> uid, token |-> Len(rows) + 1,
     expires_at |-> expires_at, used |-> FALSE]

\* An issuing transaction whose UPDATE runs for the wrong rows: those of the
\* other users.
IssueTokenOtherUsers(rows, uid, expires_at) ==
    Append([i \in DOMAIN rows |->
                IF rows[i].user_id # uid /\ ~rows[i].used
                THEN [rows[i] EXCEPT !.used = TRUE] ELSE rows[i]],
           NewResetToken(rows, uid, expires_at))

\* An issuing transaction whose UPDATE opens the user's tokens again.
IssueTokenReopening(rows, uid, expires_at) ==
    Append([i \in DOMAIN rows |->
                IF rows[i].user_id = uid
                THEN [rows[i] EXCEPT !.used = FALSE] ELSE rows[i]],
           NewResetToken(rows, uid, expires_at))

\* The statements of one issuing transaction, as committed: the UPDATE that
\* invalidates the user's unused tokens, then the INSERT of the new row.
IssueToken(rows, uid, expires_at) ==
    Append(InvalidateTokens(rows, uid),
           NewResetToken(rows, uid, expires_at))

IdleReq == [pc |-> "idle", user |-> NoId, tok |-> NoId,
            pw |-> PwShort, expires_at |-> NoTime]

\* A response of /reset-password/<token>: the method, what the caller gets (a
\* page, a redirect, an error), the flashed message and, of a POST that was
\* rejected, the token it presented.  The responses of the routes that issue
\* tokens are not kept.
NoResetResp == [route |-> "none", outcome |-> "none", msg |-> "", tok |-> NoId]

ResetResp(route, outcome, msg) ==
    [NoResetResp EXCEPT !.route = route, !.outcome = outcome, !.msg = msg]

NoSession == [user_id |-> NoId, pre_2fa_user_id |-> NoId, reset_2fa_user_id |-> NoId]

OthersUnchangedByReset ==
    UNCHANGED <<login_resp, login_trace, jwt_resp, valid_vars, reg_vars, note_vars,
                user_cache, policy_resp>>

\* auth_service.py AuthService.reset_password, up to its return: what it
\* returns and the ORM changes it leaves pending in the session.
reset_password(tok, new_password, t) ==
    LET i == TokenRow(tok)
    IN  IF i = NoId \/ (i # NoId /\ ~is_valid(reset_tokens[i], t))
        THEN [success |-> FALSE, message |-> "Invalid or expired reset token.",
              row |-> NoId, user |-> NoId]
        ELSE IF reset_tokens[i].user_id \notin UserIds
        THEN [success |-> FALSE, message |-> "User not found.", row |-> NoId, user |-> NoId]
        ELSE LET r == set_password(users[reset_tokens[i].user_id], new_password)
             IN  IF r.raised
                 THEN [success |-> FALSE, message |-> r.error, row |-> NoId, user |-> NoId]
                 ELSE [success |-> TRUE, message |-> "Password reset successfully!",
                       row |-> i, user |-> reset_tokens[i].user_id]

\* auth_routes.py reset_password, lines 249-256: the validity check of a GET
\* (and of a POST whose form does not validate).
ResetTokenCheck(route, tok, t) ==
    LET i == TokenRow(tok)
    IN  IF i = NoId \/ (i # NoId /\ ~is_valid(reset_tokens[i], t))
        THEN [ResetResp(route, "redirect_forgot_password", "Invalid or expired reset token.")
                EXCEPT !.tok = IF route = "reset_password_post" THEN tok ELSE NoId]
        ELSE ResetResp(route, "render_form", "")

\* forms.py ResetPasswordForm: Length(min) and validate_password_complexity
ResetPasswordFormValid(pw) == password_policy_errors(pw) = <<>>

\* A GET that consumes the token it finds valid.
ResetPasswordGetConsuming(tok) ==
    /\ {c \in Clients : req[c].pc = "idle" /\ current_user(c) = NoId} # {}
    /\ reset_resp' = ResetTokenCheck("reset_password_get", tok, now)
    /\ reset_tokens' = [i \in DOMAIN reset_tokens |->
            IF reset_tokens[i].token = tok /\ is_valid(reset_tokens[i], now)
            THEN [reset_tokens[i] EXCEPT !.used = TRUE] ELSE reset_tokens[i]]
    /\ UNCHANGED <<now, users, sessions, req, db_writer, redeemed>>
    /\ OthersUnchangedByReset

\* GET /reset-password/<token>, by a client that is not logged in and has no
\* request in flight; nothing of it depends on which client that is.
ResetPasswordGet(tok) ==
    /\ {c \in Clients : req[c].pc = "idle" /\ current_user(c) = NoId} # {}
    /\ reset_resp' = ResetTokenCheck("reset_password_get", tok, now)
    /\ UNCHANGED <<now, users, sessions, reset_tokens, req, db_writer, redeemed>>
    /\ OthersUnchangedByReset

\* POST /reset-password/<token>, up to s.commit()
ResetPasswordPost(c, tok, pw) ==
    /\ req[c].pc = "idle"
    /\ current_user(c) = NoId
    /\ IF ResetPasswordFormValid(pw)
       THEN LET r == reset_password(tok, pw, now)
            IN  IF r.success
                THEN /\ req' = [req EXCEPT ![c] = [IdleReq EXCEPT !.pc = "reset_commit",
                                    !.user = r.user, !.tok = r.row, !.pw = pw]]
                     /\ reset_resp' = ResetResp("reset_password_post", "pending", "")
                ELSE /\ req' = req
                     /\ reset_resp' = [ResetResp("reset_password_post",
                                            "redirect_forgot_password", r.message)
                                            EXCEPT !.tok = tok]
       ELSE /\ req' = req
            /\ reset_resp' = ResetTokenCheck("reset_password_post", tok, now)
    /\ UNCHANGED <<now, users, sessions, reset_tokens, db_writer, redeemed>>
    /\ OthersUnchangedByReset

\* A completion that commits the new hash and leaves the token unused.
ResetPasswordCommitHashOnly(c) ==
    /\ req[c].pc = "reset_commit"
    /\ db_writer = NoId
    /\ users' = [users EXCEPT ![req[c].user].password_hash = generate_password_hash(req[c].pw)]
    /\ redeemed' = [redeemed EXCEPT ![req[c].tok] = @ + 1]
    /\ reset_resp' = ResetResp("reset_password_post", "redirect_login",
                               "Password reset successfully!")
    /\ req' = [req EXCEPT ![c] = IdleReq]
    /\ UNCHANGED <<now, sessions, db_writer, reset_tokens>>
    /\ OthersUnchangedByReset

\* A commit that spends the token and leaves the password as it was.
ResetPasswordCommitTokenOnly(c) ==
    /\ req[c].pc = "reset_commit"
    /\ db_writer = NoId
    /\ users' = users
    /\ reset_tokens' = [reset_tokens EXCEPT ![req[c].tok].used = TRUE]
    /\ redeemed' = [redeemed EXCEPT ![req[c].tok] = @ + 1]
    /\ reset_resp' = ResetResp("reset_password_post", "redirect_login",
                               "Password reset successfully!")
    /\ req' = [req EXCEPT ![c] = IdleReq]
    /\ UNCHANGED <<now, sessions, db_writer>>
    /\ OthersUnchangedByReset

\* s.commit() of the POST: the flush sends UPDATE users SET password_hash and
\* UPDATE password_reset_tokens SET used = 1 WHERE id = :id, then COMMIT.
ResetPasswordCommit(c) ==
    /\ req[c].pc = "reset_commit"
    /\ db_writer = NoId
    /\ users' = [users EXCEPT ![req[c].user].password_hash = generate_password_hash(req[c].pw)]
    /\ reset_tokens' = [reset_tokens EXCEPT ![req[c].tok].used = TRUE]
    /\ redeemed' = [redeemed EXCEPT ![req[c].tok] = @ + 1]
    /\ reset_resp' = ResetResp("reset_password_post", "redirect_login",
                               "Password reset successfully!")
    /\ req' = [req EXCEPT ![c] = IdleReq]
    /\ UNCHANGED <<now, sessions, db_writer>>
    /\ OthersUnchangedByReset

\* The write lock is held by another transaction for longer than the driver
\* waits: the flush raises, get_session rolls back, the caller gets a 500.
ResetCommitBusy(c) ==
    /\ req[c].pc = "reset_commit"
    /\ db_writer # NoId
    /\ reset_resp' = ResetResp("reset_password_post", "error_500", "OperationalError")
    /\ req' = [req EXCEPT ![c] = IdleReq]
    /\ UNCHANGED <<now, users, sessions, reset_tokens, db_writer, redeemed>>
    /\ OthersUnchangedByReset

\* The UPDATE that opens an issuing transaction: it takes the write lock, or
\* fails when another transaction holds it for longer than the driver waits
\* (a 500, nothing written).  The row count is capped at MaxTokens.
BeginIssue(c, uid) ==
    IF db_writer # NoId
    THEN UNCHANGED <<req, db_writer>>
    ELSE /\ Len(reset_tokens) < MaxTokens
         /\ db_writer' = c
         /\ req' = [req EXCEPT ![c] = [IdleReq EXCEPT !.pc = "issue_commit",
                        !.user = uid, !.expires_at = now + ResetTokenTTL]]

\* A forgot_password that issues a token without looking at totp_secret.
ForgotPasswordWithoutSecondFactor(c, username) ==
    /\ req[c].pc = "idle"
    /\ current_user(c) = NoId
    /\ LET u == UserByUsername(username)
       IN  IF u = NoId
           THEN UNCHANGED <<sessions, req, db_writer>>
           ELSE /\ BeginIssue(c, u)
                /\ UNCHANGED sessions
    /\ reset_resp' = NoResetResp
    /\ UNCHANGED <<now, users, reset_tokens, redeemed>>
    /\ OthersUnchangedByReset

\* POST /forgot-password, up to s.commit()
ForgotPassword(c, username) ==
    /\ req[c].pc = "idle"
    /\ current_user(c) = NoId
    /\ LET u == UserByUsername(username)
       IN  IF u = NoId
           THEN UNCHANGED <<sessions, req, db_writer>>
           ELSE IF users[u].totp_secret # NoId
           THEN /\ sessions' = [sessions EXCEPT ![c].reset_2fa_user_id = u]
                /\ UNCHANGED <<req, db_writer>>
           ELSE /\ BeginIssue(c, u)
                /\ UNCHANGED sessions
    /\ reset_resp' = NoResetResp
    /\ UNCHANGED <<now, users, reset_tokens, redeemed>>
    /\ OthersUnchangedByReset

\* POST /verify-2fa-reset, up to s.commit()
Verify2FAReset(c, code) ==
    /\ req[c].pc = "idle"
    /\ LET uid == sessions[c].reset_2fa_user_id
       IN  IF uid = NoId
           THEN UNCHANGED <<sessions, req, db_writer>>
           ELSE IF uid \in DOMAIN users /\ verify_totp(users[uid], code, now)
           THEN /\ sessions' = [sessions EXCEPT ![c].reset_2fa_user_id = NoId]
                /\ BeginIssue(c, uid)
           ELSE UNCHANGED <<sessions, req, db_writer>>
    /\ reset_resp' = NoResetResp
    /\ UNCHANGED <<now, users, reset_tokens, redeemed>>
    /\ OthersUnchangedByReset

\* AuthService.create_password_reset_token, called with a session its caller
\* commits afterwards.
create_password_reset_token(c, username) ==
    /\ req[c].pc = "idle"
    /\ LET u == UserByUsername(username)
       IN  IF u = NoId
           THEN UNCHANGED <<req, db_writer>>
           ELSE BeginIssue(c, u)
    /\ reset_resp' = NoResetResp
    /\ UNCHANGED <<now, users, sessions, reset_tokens, redeemed>>
    /\ OthersUnchangedByReset

\* s.add(reset_token); s.commit(): the INSERT and the COMMIT of the issuing
\* transaction.  No other writer ran since its UPDATE, so the UPDATE's effect
\* is that of running it here.
IssueCommit(c) ==
    /\ req[c].pc = "issue_commit"
    /\ db_writer = c
    /\ reset_tokens' = IssueToken(reset_tokens, req[c].user, req[c].expires_at)
    /\ redeemed' = Append(redeemed, 0)
    /\ db_writer' = NoId
    /\ reset_resp' = NoResetResp
    /\ req' = [req EXCEPT ![c] = IdleReq]
    /\ UNCHANGED <<now, users, sessions>>
    /\ OthersUnchangedByReset

\* Time passes.
Tick ==
    /\ now < MaxTime
    /\ now' = now + 1
    /\ UNCHANGED <<users, sessions, reset_tokens, req, db_writer, redeemed,
                   reset_resp, login_resp, login_trace, jwt_resp, valid_vars, reg_vars,
                   note_vars, user_cache, policy_resp>>

\* What a client can put in /reset-password/<token>: a token that was issued,
\* or a string that never was (secrets.token_urlsafe(32) cannot be foreseen).
TokenInputs == {NoId} \cup {reset_tokens[i].token : i \in DOMAIN reset_tokens}

\* ------------------------------------------------ validity of stored tokens
\* Values of the expires_at column: instants up to one hour past the clock's end.
ExpiryTimes == 0 .. MaxTime + 1

\* Rows the table password_reset_tokens can hold (models.py 87-95).
StoredResetTokens ==
    [id : {1}, user_id : {1}, token : {1}, expires_at : ExpiryTimes, used : BOOLEAN]

\* Rows the table invitations can hold (models.py 253-264).
StoredInvitations ==
    [token : {1}, inviter_id : {1}, used : BOOLEAN, used_by_id : {NoId},
     expires_at : ExpiryTimes]

\* The latest call of is_valid() on a row: the row's columns, the time of the
\* call and the value returned.
NoCheck ==
    [called |-> FALSE, used |-> FALSE, expires_at |-> NoTime, t |-> NoTime,
     result |-> FALSE]

NoValidResp == [reset_token |-> NoCheck, invitation |-> NoCheck]

ValidUnchanged ==
    UNCHANGED <<now, users, sessions, reset_tokens, req, db_writer, redeemed,
                reset_resp, login_resp, login_trace, jwt_resp, invitations, reg_vars,
                note_vars, user_cache, policy_resp>>

\* reset_token.is_valid() on a stored row (auth_routes.py 252, auth_service.py 186)
PasswordResetTokenIsValid(i) ==
    /\ i \in DOMAIN reset_tokens
    /\ valid_resp' = [valid_resp EXCEPT !.reset_token =
            [called |-> TRUE, used |-> reset_tokens[i].used,
             expires_at |-> reset_tokens[i].expires_at, t |-> now,
             result |-> is_valid(reset_tokens[i], now)]]
    /\ ValidUnchanged

\* invitation.is_valid() on a stored row (auth_routes.py 90, auth_service.py 112)
InvitationIsValid(i) ==
    /\ i \in DOMAIN invitations
    /\ valid_resp' = [valid_resp EXCEPT !.invitation =
            [called |-> TRUE, used |-> invitations[i].used,
             expires_at |-> invitations[i].expires_at, t |-> now,
             result |-> Invitation_is_valid(invitations[i], now)]]
    /\ ValidUnchanged

\* -------------------------------------------------------------------- JWT
\* expires_in of generate_token (86400 s) and of generate_refresh_token
\* (86400 * 30 s), in hours.
AccessTTL == 24
RefreshTTL == 720

\* A token string, by what jwt.decode finds in it: whether its HS256 signature
\* was made with SECRET_KEY, and the claims of its payload.
NoToken == [sig_ok |-> FALSE, user_id |-> NoId, exp |-> NoTime, type |-> "none"]

\* jwt_service.py JWTService.generate_token at time t
generate_token(user_id, t) ==
    [sig_ok |-> TRUE, user_id |-> user_id, exp |-> t + AccessTTL, type |-> "access"]

\* jwt_service.py JWTService.generate_refresh_token at time t
generate_refresh_token(user_id, t) ==
    [sig_ok |-> TRUE, user_id |-> user_id, exp |-> t + RefreshTTL, type |-> "refresh"]

\* jwt.decode(token, secret_key, algorithms=['HS256']) at time t: the exception
\* it raises, "" if none.  The signature is verified first, then exp: a token
\* is expired from exp on.
jwt_decode(token, t) ==
    IF ~token.sig_ok THEN "InvalidTokenError"
    ELSE IF token.exp <= t THEN "ExpiredSignatureError"
    ELSE ""

\* A validate_token without the except clause of ExpiredSignatureError: the
\* exception leaves the function.
validate_token_uncaught(token, t) ==
    IF token.sig_ok /\ token.exp <= t
    THEN [is_valid |-> FALSE, user_id |-> NoId, error |-> "",
          raised |-> "ExpiredSignatureError"]
    ELSE IF ~token.sig_ok
    THEN [is_valid |-> FALSE, user_id |-> NoId,
          error |-> "Invalid token: Signature verification failed"]
    ELSE IF token.type \notin {"access", "refresh", "absent"}
    THEN [is_valid |-> FALSE, user_id |-> NoId, error |-> "Invalid token type"]
    ELSE IF token.user_id = NoId
    THEN [is_valid |-> FALSE, user_id |-> NoId, error |-> "Invalid token payload"]
    ELSE [is_valid |-> TRUE, user_id |-> token.user_id, error |-> ""]

\* jwt_service.py JWTService.validate_token at time t
validate_token(token, t) ==
    LET raised == jwt_decode(token, t)
        token_type == IF token.type = "absent" THEN "access" ELSE token.type
    IN  IF raised = "ExpiredSignatureError"
        THEN [is_valid |-> FALSE, user_id |-> NoId, error |-> "Token has expired"]
        ELSE IF raised # ""
        THEN [is_valid |-> FALSE, user_id |-> NoId,
              error |-> "Invalid token: Signature verification failed"]
        ELSE IF token_type \notin {"access", "refresh"}
        THEN [is_valid |-> FALSE, user_id |-> NoId, error |-> "Invalid token type"]
        ELSE IF token.user_id = NoId
        THEN [is_valid |-> FALSE, user_id |-> NoId, error |-> "Invalid token payload"]
        ELSE [is_valid |-> TRUE, user_id |-> token.user_id, error |-> ""]

\* A refresh that mints for every token validate_token accepts.
refresh_access_token_any_type(token, t) ==
    LET v == validate_token(token, t)
    IN  IF ~v.is_valid
        THEN [success |-> FALSE, new_token |-> NoToken, error |-> v.error]
        ELSE [success |-> TRUE, new_token |-> generate_token(v.user_id, t), error |-> ""]

\* A refresh that rotates: it answers with a new refresh token.
refresh_access_token_rotating(token, t) ==
    LET v == validate_token(token, t)
    IN  IF ~v.is_valid \/ token.type # "refresh"
        THEN [success |-> FALSE, new_token |-> NoToken, error |-> v.error]
        ELSE [success |-> TRUE, new_token |-> generate_refresh_token(v.user_id, t),
              error |-> ""]

\* jwt_service.py JWTService.refresh_access_token at time t
refresh_access_token(token, t) ==
    LET v == validate_token(token, t)
    IN  IF ~v.is_valid
        THEN [success |-> FALSE, new_token |-> NoToken, error |-> v.error]
        ELSE IF jwt_decode(token, t) # ""
        THEN [success |-> FALSE, new_token |-> NoToken,
              error |-> "Invalid refresh token: Signature has expired"]
        ELSE IF token.type # "refresh"
        THEN [success |-> FALSE, new_token |-> NoToken,
              error |-> "Token is not a refresh token"]
        ELSE [success |-> TRUE, new_token |-> generate_token(v.user_id, t), error |-> ""]

\* The Authorization header of a request: absent, of another scheme, or
\* "Bearer <token>".
NoHeader == [scheme |-> "none", token |-> NoToken]
BasicHeader == [scheme |-> "basic", token |-> NoToken]
Bearer(token) == [scheme |-> "bearer", token |-> token]

\* api_routes.py jwt_required at time t: the 401 it answers with, or the
\* user_id it hands to the view (status 0).
jwt_required(header, t) ==
    IF header.scheme = "none"
    THEN [status |-> 401, error |-> "No authorization header", user_id |-> NoId]
    ELSE IF header.scheme # "bearer"
    THEN [status |-> 401, error |-> "Invalid authorization header format", user_id |-> NoId]
    ELSE LET v == validate_token(header.token, t)
         IN  IF ~v.is_valid
             THEN [status |-> 401, error |-> v.error, user_id |-> NoId]
             ELSE IF v.user_id \notin UserIds
             THEN [status |-> 401, error |-> "User not found", user_id |-> NoId]
             ELSE [status |-> 0, error |-> "", user_id |-> v.user_id]

\* The tokens a client can present.  A signature made with SECRET_KEY is on
\* what the service minted at some time: an access or a refresh token of a
\* user id, who may have been deleted since.  Anything else fails the
\* signature check.
TokenUserIds == UserIds \cup {Cardinality(UserIds) + 1}

JwtExpiries ==
    (0 .. MaxTime + 1)
        \cup {t + AccessTTL : t \in 0 .. MaxTime}
        \cup {t + RefreshTTL : t \in 0 .. MaxTime}

JwtTokens ==
    [sig_ok : BOOLEAN, user_id : TokenUserIds, exp : JwtExpiries,
     type : {"access", "refresh"}]

Headers == {NoHeader, BasicHeader} \cup {Bearer(token) : token \in JwtTokens}

\* A response of a bearer-token endpoint, with the request it answers: the
\* header or the body's refresh_token, and the time of the request.
NoJwtResp ==
    [route |-> "none", status |-> 0, error |-> "", user_id |-> NoId,
     access_token |-> NoToken, scheme |-> "none", token |-> NoToken, t |-> NoTime]

OthersUnchangedByJwt ==
    UNCHANGED <<now, users, sessions, reset_tokens, req, db_writer, redeemed,
                reset_resp, login_resp, login_trace, valid_vars, reg_vars, note_vars,
                user_cache, policy_resp>>

\* GET /api/auth/validate, an endpoint guarded by jwt_required
ApiValidate(header) ==
    /\ LET g == jwt_required(header, now)
       IN  jwt_resp' = [NoJwtResp EXCEPT !.route = "api_validate",
                            !.status = IF g.status = 401 THEN 401 ELSE 200,
                            !.error = g.error, !.user_id = g.user_id,
                            !.scheme = header.scheme, !.token = header.token, !.t = now]
    /\ OthersUnchangedByJwt

\* POST /api/auth/refresh; NoToken is a body without refresh_token
ApiRefresh(token) ==
    /\ IF token = NoToken
       THEN jwt_resp' = [NoJwtResp EXCEPT !.route = "api_refresh", !.status = 400,
                            !.error = "Refresh token required", !.scheme = "body", !.t = now]
       ELSE LET r == refresh_access_token(token, now)
            IN  jwt_resp' = [NoJwtResp EXCEPT !.route = "api_refresh",
                                !.status = IF r.success THEN 200 ELSE 401,
                                !.error = r.error, !.access_token = r.new_token,
                                !.scheme = "body", !.token = token, !.t = now]
    /\ OthersUnchangedByJwt

\* What validate_token can be handed: a payload may also carry another type,
\* no type or no user_id.
ValidateTokens ==
    [sig_ok : BOOLEAN, user_id : TokenUserIds \cup {NoId}, exp : JwtExpiries,
     type : {"access", "refresh", "absent", "other"}]

\* A call of JWTService.validate_token, with what it returns
ValidateToken(token) ==
    /\ LET v == validate_token(token, now)
       IN  jwt_resp' = [NoJwtResp EXCEPT !.route = "validate_token",
                            !.error = v.error, !.user_id = v.user_id,
                            !.scheme = "call", !.token = token, !.t = now]
    /\ OthersUnchangedByJwt

\* The bearer-token endpoints, for every token a client can present.
NextJwt ==
    \/ \E header \in Headers : ApiValidate(header)
    \/ \E token \in JwtTokens \cup {NoToken} : ApiRefresh(token)
    \/ \E token \in ValidateTokens : ValidateToken(token)
    \/ Tick

\* ------------------------------------------------------------------ login
\* What a client types as username: a username, an email, or neither.
LoginIds == {"alice", "bob", "bob@example.com", "nobody"}

\* A request without totp_code
NoCode == 0 - 1

\* The secret a client can enrol (pyotp.random_base32()); not the one of bob
TotpSecrets == {2}

\* The rows of select(User).where((username == x) | (email == x))
UsersByUsernameOrEmail(username_or_email) ==
    {u \in DOMAIN users : \/ users[u].username = username_or_email
                          \/ users[u].email = username_or_email}

\* scalar_one_or_none() raises MultipleResultsFound when the SELECT of
\* authenticate_user returns more than one row; no caller catches it.
MultipleResultsFound(username_or_email) ==
    Cardinality(UsersByUsernameOrEmail(username_or_email)) > 1

\* auth_service.py AuthService.authenticate_user, when it returns: the user's
\* id, or NoId
authenticate_user(username_or_email, password) ==
    LET found == UsersByUsernameOrEmail(username_or_email)
    IN  IF found = {} THEN NoId
        ELSE LET u == CHOOSE u \in found : TRUE
             IN  IF check_password(users[u], password) THEN u ELSE NoId

\* The login attempt of a session: the user of its latest successful password
\* check, whether that user had a TOTP secret then, and the user verify_2fa
\* accepted a code for since, and whether verify_2fa has refused a code of
\* the attempt while it awaits the second factor.
NoLoginTrace ==
    [pw_user |-> NoId, pw_had_totp |-> FALSE, totp_user |-> NoId, bad_code |-> FALSE]

\* The response of POST /api/auth/login
NoLoginResp ==
    [route |-> "none", status |-> 0, error |-> "", requires_2fa |-> FALSE,
     access_token |-> NoToken, refresh_token |-> NoToken, user |-> NoId]

OthersUnchangedByLogin ==
    UNCHANGED <<now, reset_tokens, req, db_writer, redeemed, reset_resp, jwt_resp,
                valid_vars, reg_vars, note_vars, policy_resp>>

\* What POST /login answers to a caller without a session, when its commit
\* succeeds: the status, the target of the redirect and the flashed message.
LoginResponse(username, password) ==
    LET u == authenticate_user(username, password)
    IN  IF MultipleResultsFound(username)
        THEN [status |-> 500, location |-> "", flash |-> ""]
        ELSE IF u # NoId
        THEN IF users[u].totp_secret # NoId
             THEN [status |-> 302, location |-> "verify_2fa", flash |-> ""]
             ELSE [status |-> 302, location |-> "index", flash |-> "Welcome back"]
        ELSE [status |-> 200, location |-> "", flash |-> "Invalid username or password."]

\* A login that authenticates on the password alone.
LoginWithoutSecondFactor(c, username, password) ==
    /\ current_user(c) = NoId
    /\ LET u == authenticate_user(username, password)
       IN  IF u # NoId
           THEN /\ sessions' = [sessions EXCEPT ![c].user_id = u]
                /\ users' = [users EXCEPT ![u].last_login = now]
                /\ login_trace' = [login_trace EXCEPT ![c] =
                        [pw_user |-> u, pw_had_totp |-> users[u].totp_secret # NoId,
                         totp_user |-> NoId, bad_code |-> FALSE]]
           ELSE UNCHANGED <<sessions, users, login_trace>>
    /\ UNCHANGED login_resp
    /\ UNCHANGED user_cache
    /\ OthersUnchangedByLogin

\* POST /login.  When s.commit() raises (the write lock is held for longer
\* than the driver waits), the exception leaves the view after
\* session["user_id"] was assigned: Flask answers 500 and saves the session
\* with that response, or, when it propagates exceptions to the server
\* (debug, testing), sends no cookie.
Login(c, username, password) ==
    /\ current_user(c) = NoId
    /\ LET u == authenticate_user(username, password)
       IN  IF MultipleResultsFound(username)
           THEN UNCHANGED <<sessions, users, login_trace>>
           ELSE IF u # NoId
           THEN /\ IF users[u].totp_secret # NoId
                   THEN /\ sessions' = [sessions EXCEPT ![c].pre_2fa_user_id = u]
                        /\ users' = users
                   ELSE IF db_writer = NoId
                   THEN /\ sessions' = [sessions EXCEPT ![c].user_id = u]
                        /\ users' = [users EXCEPT ![u].last_login = now]
                   ELSE /\ sessions' \in {sessions, [sessions EXCEPT ![c].user_id = u]}
                        /\ users' = users
                /\ login_trace' = [login_trace EXCEPT ![c] =
                        [pw_user |-> u, pw_had_totp |-> users[u].totp_secret # NoId,
                         totp_user |-> NoId, bad_code |-> FALSE]]
           ELSE UNCHANGED <<sessions, users, login_trace>>
    /\ UNCHANGED login_resp
    /\ UNCHANGED user_cache
    /\ OthersUnchangedByLogin

\* POST /verify-2fa.  A failing s.commit() leaves the view after the session
\* was changed, as in /login.
Verify2FA(c, code) ==
    /\ current_user(c) = NoId
    /\ sessions[c].pre_2fa_user_id # NoId
    /\ LET user_id == sessions[c].pre_2fa_user_id
       IN  IF user_id \in DOMAIN users /\ verify_totp(users[user_id], code, now)
           THEN /\ IF db_writer = NoId
                   THEN /\ sessions' = [sessions EXCEPT ![c].pre_2fa_user_id = NoId,
                                                        ![c].user_id = user_id]
                        /\ users' = [users EXCEPT ![user_id].last_login = now]
                   ELSE /\ sessions' \in {sessions,
                                [sessions EXCEPT ![c].pre_2fa_user_id = NoId,
                                                 ![c].user_id = user_id]}
                        /\ users' = users
                /\ login_trace' = [login_trace EXCEPT ![c].totp_user = user_id,
                                                      ![c].bad_code = FALSE]
           ELSE /\ login_trace' = [login_trace EXCEPT ![c].bad_code = TRUE]
                /\ UNCHANGED <<sessions, users>>
    /\ UNCHANGED login_resp
    /\ UNCHANGED user_cache
    /\ OthersUnchangedByLogin

\* GET /logout: session.clear() ends the session
Logout(c) ==
    /\ current_user(c) # NoId
    /\ sessions' = [sessions EXCEPT ![c] = NoSession]
    /\ login_trace' = [login_trace EXCEPT ![c] = NoLoginTrace]
    /\ UNCHANGED <<users, login_resp>>
    /\ user_cache' = [user_cache EXCEPT ![c] = NoCache]
    /\ OthersUnchangedByLogin

\* POST /profile/setup-2fa with the secret of the form and a code
Setup2FA(c, secret, code) ==
    /\ current_user(c) # NoId
    /\ IF code = TotpAt(secret, now)
       THEN users' = [users EXCEPT ![current_user(c)].totp_secret = secret]
       ELSE users' = users
    /\ UNCHANGED <<sessions, login_trace, login_resp>>
    /\ CurrentUserCalled(c)
    /\ OthersUnchangedByLogin

\* POST /profile/disable-2fa
Disable2FA(c) ==
    /\ current_user(c) # NoId
    /\ users' = [users EXCEPT ![current_user(c)].totp_secret = NoId]
    /\ UNCHANGED <<sessions, login_trace, login_resp>>
    /\ CurrentUserCalled(c)
    /\ OthersUnchangedByLogin

\* POST /toggle-theme: flips the stored theme, commits, then drops the cached
\* user of the session.
ToggleTheme(c) ==
    /\ current_user(c) # NoId
    /\ users' = [users EXCEPT ![current_user(c)].theme =
                    IF @ = "light" THEN "dark" ELSE "light"]
    /\ UNCHANGED <<sessions, login_trace, login_resp>>
    /\ user_cache' = [user_cache EXCEPT ![c] = NoCache]
    /\ OthersUnchangedByLogin

ApiLoginResp(status, error) ==
    [NoLoginResp EXCEPT !.route = "api_login", !.status = status, !.error = error]

\* An API login that never asks for the second factor.
ApiLoginPasswordOnly(username, password, totp_code) ==
    /\ LET u == authenticate_user(username, password)
       IN  IF u = NoId
           THEN /\ login_resp' = ApiLoginResp(401, "Invalid credentials")
                /\ users' = users
           ELSE /\ login_resp' = [ApiLoginResp(200, "") EXCEPT
                        !.access_token = generate_token(u, now),
                        !.refresh_token = generate_refresh_token(u, now),
                        !.user = u]
                /\ users' = [users EXCEPT ![u].last_login = now]
    /\ UNCHANGED <<sessions, login_trace>>
    /\ UNCHANGED user_cache
    /\ OthersUnchangedByLogin

\* An API login that stamps last_login as soon as the password is right,
\* whatever becomes of the second factor.
ApiLoginStampingPassword(username, password, totp_code) ==
    /\ LET u == authenticate_user(username, password)
       IN  IF u = NoId
           THEN /\ login_resp' = ApiLoginResp(401, "Invalid credentials")
                /\ users' = users
           ELSE IF users[u].totp_secret # NoId /\ totp_code = NoCode
           THEN /\ login_resp' = [ApiLoginResp(401, "2FA code required")
                                    EXCEPT !.requires_2fa = TRUE]
                /\ users' = [users EXCEPT ![u].last_login = now]
           ELSE IF users[u].totp_secret # NoId /\ ~verify_totp(users[u], totp_code, now)
           THEN /\ login_resp' = ApiLoginResp(401, "Invalid 2FA code")
                /\ users' = [users EXCEPT ![u].last_login = now]
           ELSE IF db_writer # NoId
           THEN /\ login_resp' = ApiLoginResp(500, "Internal Server Error")
                /\ users' = users
           ELSE /\ login_resp' = [ApiLoginResp(200, "") EXCEPT
                        !.access_token = generate_token(u, now),
                        !.refresh_token = generate_refresh_token(u, now),
                        !.user = u]
                /\ users' = [users EXCEPT ![u].last_login = now]
    /\ UNCHANGED <<sessions, login_trace>>
    /\ UNCHANGED user_cache
    /\ OthersUnchangedByLogin

\* What POST /api/auth/login answers to username and password, with
\* totp_code unless it is NoCode.  When authenticate_user or s.commit()
\* raises, the view is left before it returns the tokens: a 500.
ApiLoginResponse(username, password, totp_code) ==
    LET u == authenticate_user(username, password)
    IN  IF MultipleResultsFound(username)
        THEN ApiLoginResp(500, "Internal Server Error")
        ELSE IF u = NoId
        THEN ApiLoginResp(401, "Invalid credentials")
        ELSE IF users[u].totp_secret # NoId /\ totp_code = NoCode
        THEN [ApiLoginResp(401, "2FA code required") EXCEPT !.requires_2fa = TRUE]
        ELSE IF users[u].totp_secret # NoId /\ ~verify_totp(users[u], totp_code, now)
        THEN ApiLoginResp(401, "Invalid 2FA code")
        ELSE IF db_writer # NoId
        THEN ApiLoginResp(500, "Internal Server Error")
        ELSE [ApiLoginResp(200, "") EXCEPT
                !.access_token = generate_token(u, now),
                !.refresh_token = generate_refresh_token(u, now),
                !.user = u]

\* POST /api/auth/login: the response, and AuthService.update_last_login with
\* s.commit() when it is a 200.
ApiLogin(username, password, totp_code) ==
    /\ login_resp' = ApiLoginResponse(username, password, totp_code)
    /\ users' = IF login_resp'.status = 200
                THEN [users EXCEPT ![login_resp'.user].last_login = now]
                ELSE users
    /\ UNCHANGED <<sessions, login_trace>>
    /\ UNCHANGED user_cache
    /\ OthersUnchangedByLogin

\* The login routes of the browser and of the API, for two browser sessions;
\* the first one also manages the second factor of its user.
\* What a client can put into the totp_code field of the disable page
DisableCodes == TotpCodes \cup {NoCode}

\* POST /profile/disable-2fa with a totp_code field: the route builds no form
\* and reads no field of the request.
Disable2FARequest(c, totp_code) == Disable2FA(c)

NextLogin ==
    \/ \E c \in Clients, name \in LoginIds, pw \in LoginPasswords : Login(c, name, pw)
    \/ \E c \in Clients, code \in TotpCodes : Verify2FA(c, code)
    \/ \E c \in Clients : Logout(c)
    \/ \E secret \in TotpSecrets, code \in TotpCodes : Setup2FA(1, secret, code)
    \/ Disable2FA(1)
    \/ \E name \in LoginIds, pw \in LoginPasswords, code \in TotpCodes \cup {NoCode} :
            ApiLogin(name, pw, code)
    \/ Tick

\* ------------------------------------------------------------ registration
\* An empty form field, and the None that `form.email.data or None` makes of it.
NoEmail == ""

\* What a caller can type in the forms of /register and /profile/edit.
RegisterUsernames == {"alice", "carol", " carol "}
RegisterEmails == {NoEmail, "bob@example.com", "Carol@Example.com"}
ProfileUsernames == {"alice", " carol "}
ProfileEmails == {NoEmail, "bob@example.com", "carol@example.com"}
InvitationInputs == {NoId, 1}

\* str.strip() and str.lower() on these inputs
strip(str) ==
    IF str = " carol " THEN "carol" ELSE IF str = " Plans " THEN "Plans" ELSE str
lower(str) == IF str = "Carol@Example.com" THEN "carol@example.com" ELSE str

\* select(User).where(User.email == email): the ids of the rows
UsersByEmail(email) == {u \in DOMAIN users : users[u].email = email}

\* select(Invitation).where(Invitation.token == token).scalar_one_or_none()
InvitationRow(token) ==
    IF \E i \in DOMAIN invitations : invitations[i].token = token
    THEN CHOOSE i \in DOMAIN invitations : invitations[i].token = token
    ELSE NoId

\* The request of a client on /register or /profile/edit: where it stands,
\* the values it will write, the invitation it will mark used, and whether
\* a /register of the other client for the same username ran while it did.
IdleReg ==
    [pc |-> "idle", user |-> NoId, username |-> "", email |-> NoEmail,
     pw |-> PwShort, token |-> NoId, inv |-> NoId, rival |-> FALSE]

\* The response of a request: the route, what the caller gets, the flashed
\* message, and of /register the username, the email and the rival flag of
\* the request.
NoRegResp ==
    [route |-> "none", outcome |-> "none", msg |-> "", username |-> "",
     email |-> NoEmail, rival |-> FALSE]

RegResp(route, outcome, msg) ==
    [NoRegResp EXCEPT !.route = route, !.outcome = outcome, !.msg = msg]

\* The response of a /register request that ends in register_user
RegisterResp(c, outcome, msg) ==
    [route |-> "register", outcome |-> outcome, msg |-> msg,
     username |-> reg[c].username, email |-> reg[c].email, rival |-> reg[c].rival]

OthersUnchangedByRegister ==
    UNCHANGED <<redeemed, reset_tokens, req, reset_resp, login_resp, login_trace,
                jwt_resp, valid_resp, note_vars, policy_resp>>

RegisterFormValid(pw) == password_policy_errors(pw) = <<>>

\* The clients whose /register for this username is in flight
Rivals(c, username) ==
    {d \in Clients \ {c} :
        reg[d].pc \in {"reg_email", "reg_flush", "reg_commit"} /\ reg[d].username = username}

\* POST /register, up to the SELECT of register_user that looks for the username
Register(c, username, email, pw, token) ==
    /\ reg[c].pc = "idle"
    /\ IF current_user(c) # NoId
       THEN /\ reg_resp' = [reg_resp EXCEPT ![c] = RegResp("register", "redirect_index", "")]
            /\ reg' = reg
       ELSE IF ~RegisterFormValid(pw)
       THEN /\ reg_resp' = [reg_resp EXCEPT ![c] = RegResp("register", "page", "")]
            /\ reg' = reg
       ELSE LET name == strip(username)
                mail == IF email # NoEmail THEN lower(strip(email)) ELSE email
            IN  IF password_policy_errors(pw) # <<>>
                THEN /\ reg_resp' = [reg_resp EXCEPT ![c] = RegResp("register", "page",
                            "Password policy violation")]
                     /\ reg' = reg
                ELSE IF UserByUsername(name) # NoId
                THEN /\ reg_resp' = [reg_resp EXCEPT ![c] =
                            [RegResp("register", "page", "Username already exists.")
                                EXCEPT !.username = name]]
                     /\ reg' = reg
                ELSE /\ reg_resp' = [reg_resp EXCEPT ![c] = NoRegResp]
                     /\ reg' = [d \in Clients |->
                            IF d = c
                            THEN [IdleReg EXCEPT
                                    !.pc = IF mail # NoEmail THEN "reg_email" ELSE "reg_flush",
                                    !.username = name, !.email = mail, !.pw = pw,
                                    !.token = token,
                                    !.rival = Rivals(c, name) # {}]
                            ELSE IF d \in Rivals(c, name)
                            THEN [reg[d] EXCEPT !.rival = TRUE]
                            ELSE reg[d]]
    /\ UNCHANGED <<now, users, sessions, invitations, db_writer>>
    /\ CurrentUserCalled(c)
    /\ OthersUnchangedByRegister

\* register_user: the SELECT that looks for the email
RegisterCheckEmail(c) ==
    /\ reg[c].pc = "reg_email"
    /\ LET found == UsersByEmail(reg[c].email)
       IN  IF Cardinality(found) > 1
           THEN /\ reg_resp' = [reg_resp EXCEPT ![c] = RegisterResp(c, "page",
                        "An error occurred during registration. Please try again.")]
                /\ reg' = [reg EXCEPT ![c] = IdleReg]
           ELSE IF found # {}
           THEN /\ reg_resp' = [reg_resp EXCEPT ![c] =
                        RegisterResp(c, "page", "Email already in use.")]
                /\ reg' = [reg EXCEPT ![c] = IdleReg]
           ELSE /\ reg' = [reg EXCEPT ![c].pc = "reg_flush"]
                /\ reg_resp' = reg_resp
    /\ UNCHANGED <<now, users, sessions, invitations, db_writer>>
    /\ UNCHANGED user_cache
    /\ OthersUnchangedByRegister

\* A flush whose INSERT is not checked against the unique index of username.
RegisterFlushUnchecked(c) ==
    /\ reg[c].pc = "reg_flush"
    /\ db_writer = NoId
    /\ db_writer' = c
    /\ reg' = [reg EXCEPT ![c].pc = "reg_commit"]
    /\ reg_resp' = reg_resp
    /\ UNCHANGED <<now, users, sessions, invitations>>
    /\ UNCHANGED user_cache
    /\ OthersUnchangedByRegister

\* A flush that takes the invitation it finds without asking is_valid().
RegisterFlushAnyInvitation(c) ==
    /\ reg[c].pc = "reg_flush"
    /\ db_writer = NoId
    /\ IF UserByUsername(reg[c].username) # NoId
       THEN /\ reg_resp' = [reg_resp EXCEPT ![c] = RegisterResp(c, "page",
                    "Username already exists. Please choose a different username.")]
            /\ reg' = [reg EXCEPT ![c] = IdleReg]
            /\ db_writer' = db_writer
       ELSE /\ db_writer' = c
            /\ reg' = [reg EXCEPT ![c].pc = "reg_commit",
                        ![c].inv = IF reg[c].token # NoId THEN InvitationRow(reg[c].token)
                                   ELSE NoId]
            /\ reg_resp' = reg_resp
    /\ UNCHANGED <<now, users, sessions, invitations>>
    /\ UNCHANGED user_cache
    /\ OthersUnchangedByRegister

\* register_user from session.flush() to its return: the INSERT takes the
\* write lock and is checked against the unique index ix_users_username; then
\* the invitation is looked up and, if valid, marked used in the session.
RegisterFlush(c) ==
    /\ reg[c].pc = "reg_flush"
    /\ db_writer = NoId
    /\ IF UserByUsername(reg[c].username) # NoId
       THEN /\ reg_resp' = [reg_resp EXCEPT ![c] = RegisterResp(c, "page",
                    "Username already exists. Please choose a different username.")]
            /\ reg' = [reg EXCEPT ![c] = IdleReg]
            /\ db_writer' = db_writer
       ELSE LET i == InvitationRow(reg[c].token)
            IN  /\ db_writer' = c
                /\ reg' = [reg EXCEPT ![c].pc = "reg_commit",
                            ![c].inv = IF reg[c].token # NoId /\ i # NoId
                                          /\ Invitation_is_valid(invitations[i], now)
                                       THEN i ELSE NoId]
                /\ reg_resp' = reg_resp
    /\ UNCHANGED <<now, users, sessions, invitations>>
    /\ UNCHANGED user_cache
    /\ OthersUnchangedByRegister

\* The write lock is held by another transaction for longer than the driver
\* waits: the INSERT raises OperationalError, an SQLAlchemyError.
RegisterBusy(c) ==
    /\ reg[c].pc = "reg_flush"
    /\ db_writer # NoId
    /\ reg_resp' = [reg_resp EXCEPT ![c] = RegisterResp(c, "page",
            "An error occurred during registration. Please try again.")]
    /\ reg' = [reg EXCEPT ![c] = IdleReg]
    /\ UNCHANGED <<now, users, sessions, invitations, db_writer>>
    /\ UNCHANGED user_cache
    /\ OthersUnchangedByRegister

\* The row that User(username=..., email=...) and set_password make
NewUser(id, username, email, pw) ==
    [id |-> id, username |-> username, email |-> email,
     password_hash |-> set_password([password_hash |-> <<>>], pw).user.password_hash,
     totp_secret |-> NoId, last_login |-> NoTime, theme |-> "light"]

\* s.commit() of /register: the UPDATE of the invitation and the COMMIT
RegisterCommit(c) ==
    /\ reg[c].pc = "reg_commit"
    /\ db_writer = c
    /\ LET id == Cardinality(DOMAIN users) + 1
       IN  /\ users' = [u \in DOMAIN users \cup {id} |->
                    IF u = id
                    THEN NewUser(id, reg[c].username, reg[c].email, reg[c].pw)
                    ELSE users[u]]
           /\ invitations' =
                IF reg[c].inv = NoId THEN invitations
                ELSE [invitations EXCEPT ![reg[c].inv].used = TRUE,
                                         ![reg[c].inv].used_by_id = id]
    /\ db_writer' = NoId
    /\ reg_resp' = [reg_resp EXCEPT ![c] = RegisterResp(c, "redirect_login",
            "Account created successfully! Please log in.")]
    /\ reg' = [reg EXCEPT ![c] = IdleReg]
    /\ UNCHANGED <<now, sessions>>
    /\ UNCHANGED user_cache
    /\ OthersUnchangedByRegister

\* POST /profile/edit, up to s.commit()
EditProfile(c, username, email) ==
    /\ reg[c].pc = "idle"
    /\ LET user == current_user(c)
       IN  IF user = NoId
           THEN /\ reg_resp' = [reg_resp EXCEPT ![c] =
                        RegResp("edit_profile", "redirect_login", "")]
                /\ reg' = reg
           ELSE IF username # users[user].username /\ UserByUsername(username) # NoId
           THEN /\ reg_resp' = [reg_resp EXCEPT ![c] = RegResp("edit_profile", "page",
                        "Username already exists. Please choose a different one.")]
                /\ reg' = reg
           ELSE /\ reg_resp' = [reg_resp EXCEPT ![c] = NoRegResp]
                /\ reg' = [reg EXCEPT ![c] = [IdleReg EXCEPT !.pc = "edit_commit",
                                !.user = user, !.username = strip(username),
                                !.email = email]]
    /\ UNCHANGED <<now, users, sessions, invitations, db_writer>>
    /\ CurrentUserCalled(c)
    /\ OthersUnchangedByRegister

\* s.commit() of /profile/edit: the flush sends UPDATE users SET username,
\* email WHERE id = :id, checked against the unique index of username.
EditProfileCommit(c) ==
    /\ reg[c].pc = "edit_commit"
    /\ db_writer = NoId
    /\ IF \E u \in DOMAIN users \ {reg[c].user} : users[u].username = reg[c].username
       THEN /\ reg_resp' = [reg_resp EXCEPT ![c] =
                    RegResp("edit_profile", "error_500", "IntegrityError")]
            /\ users' = users
       ELSE /\ reg_resp' = [reg_resp EXCEPT ![c] = RegResp("edit_profile",
                    "redirect_profile", "Profile updated successfully!")]
            /\ users' = [users EXCEPT ![reg[c].user].username = reg[c].username,
                                      ![reg[c].user].email = reg[c].email]
    /\ reg' = [reg EXCEPT ![c] = IdleReg]
    /\ UNCHANGED <<now, sessions, invitations, db_writer>>
    /\ user_cache' = IF reg_resp'[c].outcome = "redirect_profile"
                     THEN [user_cache EXCEPT ![c] = NoCache] ELSE user_cache
    /\ OthersUnchangedByRegister

\* The write lock is held for longer than the driver waits: s.commit() raises.
EditProfileBusy(c) ==
    /\ reg[c].pc = "edit_commit"
    /\ db_writer # NoId
    /\ reg_resp' = [reg_resp EXCEPT ![c] =
            RegResp("edit_profile", "error_500", "OperationalError")]
    /\ reg' = [reg EXCEPT ![c] = IdleReg]
    /\ UNCHANGED <<now, users, sessions, invitations, db_writer>>
    /\ UNCHANGED user_cache
    /\ OthersUnchangedByRegister

\* GET /profile: the page is rendered from the user object current_user()
\* returns, the one of the session cache when there is one.
Profile(c) ==
    /\ current_user(c) # NoId
    /\ reg_resp' = [reg_resp EXCEPT ![c] =
            [RegResp("profile", "page", "") EXCEPT
                !.username = CurrentUserObject(c).username,
                !.email = CurrentUserObject(c).email]]
    /\ UNCHANGED <<now, users, sessions, invitations, db_writer, reg>>
    /\ CurrentUserCalled(c)
    /\ OthersUnchangedByRegister

\* The name that makes a user the administrator
AdminName == "admin"

\* GET /admin/users: the admin check reads the username of the user object
\* current_user() returns.
AdminUsers(c) ==
    /\ current_user(c) # NoId
    /\ reg_resp' = [reg_resp EXCEPT ![c] =
            IF CurrentUserObject(c).username # AdminName
            THEN RegResp("admin_users", "redirect_index",
                         "Access denied. Admin privileges required.")
            ELSE RegResp("admin_users", "page", "")]
    /\ UNCHANGED <<now, users, sessions, invitations, db_writer, reg>>
    /\ CurrentUserCalled(c)
    /\ OthersUnchangedByRegister

\* forms.py ChangePasswordForm: Length(min) and validate_password_complexity
\* on new_password
ChangePasswordFormValid(new_password) == password_policy_errors(new_password) = <<>>

\* POST /profile/change-password
ChangePassword(c, current_password, new_password) ==
    /\ current_user(c) # NoId
    /\ LET user == current_user(c)
           r == set_password(users[user], new_password)
       IN  IF ~ChangePasswordFormValid(new_password)
           THEN /\ reg_resp' = [reg_resp EXCEPT ![c] = RegResp("change_password", "page",
                        password_policy_errors(new_password)[1])]
                /\ users' = users
           ELSE IF ~check_password(users[user], current_password)
           THEN /\ reg_resp' = [reg_resp EXCEPT ![c] = RegResp("change_password", "page",
                        "Current password is incorrect.")]
                /\ users' = users
           ELSE IF r.raised
           THEN /\ reg_resp' = [reg_resp EXCEPT ![c] =
                        RegResp("change_password", "error_500", "ValueError")]
                /\ users' = users
           ELSE IF db_writer # NoId
           THEN /\ reg_resp' = [reg_resp EXCEPT ![c] =
                        RegResp("change_password", "error_500", "OperationalError")]
                /\ users' = users
           ELSE /\ reg_resp' = [reg_resp EXCEPT ![c] = RegResp("change_password",
                        "redirect_profile", "Password changed successfully!")]
                /\ users' = [users EXCEPT ![user] = r.user]
    /\ UNCHANGED <<now, sessions, invitations, db_writer, reg>>
    /\ CurrentUserCalled(c)
    /\ OthersUnchangedByRegister

\* bootstrap.py ensure_admin at startup, with the configured password: an
\* empty users table gets the admin row, unless set_password raises.
EnsureAdmin(password) ==
    /\ IF DOMAIN users = {} /\ ~set_password([password_hash |-> <<>>], password).raised
       THEN users' = <<NewUser(1, AdminName, NoEmail, password)>>
       ELSE users' = users
    /\ UNCHANGED <<now, sessions, invitations, db_writer, reg, reg_resp, user_cache>>
    /\ OthersUnchangedByRegister

\* ------------------------------------------------------------------ notes
\* The <int:note_id> a URL can carry: the id of the note, stored or deleted.
NoteInputs == {1}

\* Rows of share_notes the model stores at a time; ids are SQLite rowids.
MaxShares == 2
ShareIds == 1 .. MaxShares

Titles == {"Groceries", " Plans "}

\* Python None of an Optional value; a present value v is <<v>>.
PyNone == <<>>

\* The note alice created: Note(title, owner_id=user.id) with the column
\* defaults of pinned, favorite and archived.
AliceNote ==
    [id |-> 1, owner_id |-> 1, title |-> "Groceries",
     pinned |-> FALSE, favorite |-> FALSE, archived |-> FALSE]

IdleShareReq ==
    [pc |-> "idle", note_id |-> NoId, shared_by_id |-> NoId,
     shared_with_id |-> NoId, can_edit |-> FALSE]

\* The response of a note route: the status, the flashed message or the JSON
\* error, and the can_edit field of the JSON note.
NoNoteResp ==
    [route |-> "none", user |-> NoId, note |-> NoId, status |-> 0, msg |-> "",
     can_edit |-> PyNone]

NoteResp(route, u, n, status, msg) ==
    [NoNoteResp EXCEPT !.route = route, !.user = u, !.note = n,
                       !.status = status, !.msg = msg]

\* Empty tables notes and share_notes, no request in flight.
NoNotes ==
    /\ notes = <<>>
    /\ shares = <<>>
    /\ share_req = [c \in Clients |-> IdleShareReq]
    /\ note_resp = NoNoteResp

OthersUnchangedByNotes ==
    UNCHANGED <<now, users, sessions, reset_tokens, req, db_writer, redeemed,
                reset_resp, login_resp, login_trace, jwt_resp, valid_vars, reg_vars,
                policy_resp>>

\* note.owner_id is not None and note.owner_id == user.id
is_owner(n, u) == notes[n].owner_id # NoId /\ notes[n].owner_id = u

\* select(ShareNote).where(ShareNote.note_id == note_id,
\*                         ShareNote.shared_with_id == user.id): the ids of the rows
SharesOf(n, u) ==
    {s \in DOMAIN shares : shares[s].note_id = n /\ shares[s].shared_with_id = u}

\* .scalar_one_or_none() of that select raises MultipleResultsFound on two rows
MultipleShares(n, u) == Cardinality(SharesOf(n, u)) > 1

\* .scalar_one_or_none() of that select when it does not raise: the row id, or NoId
ShareRow(n, u) ==
    IF SharesOf(n, u) = {} THEN NoId ELSE CHOOSE s \in SharesOf(n, u) : TRUE

\* The tuple check_note_access returns, or the exception that leaves it.
AccessResult(note, has_access, can_edit) ==
    [raised |-> FALSE, note |-> note, has_access |-> has_access, can_edit |-> can_edit]

AccessRaised == [raised |-> TRUE, note |-> NoId, has_access |-> FALSE, can_edit |-> FALSE]

\* note_service.py NoteService.check_note_access
check_note_access(n, u) ==
    IF n \notin DOMAIN notes THEN AccessResult(NoId, FALSE, FALSE)
    ELSE IF is_owner(n, u) THEN AccessResult(n, TRUE, TRUE)
    ELSE IF MultipleShares(n, u) THEN AccessRaised
    ELSE IF ShareRow(n, u) # NoId
    THEN AccessResult(n, TRUE, shares[ShareRow(n, u)].can_edit)
    ELSE AccessResult(n, FALSE, FALSE)

\* GET /api/notes/<note_id> with the bearer token of user u
ApiGetNote(u, n) ==
    /\ u \in DOMAIN users
    /\ LET a == check_note_access(n, u)
       IN  note_resp' =
             IF a.raised
             THEN NoteResp("api_get_note", u, n, 500, "MultipleResultsFound")
             ELSE IF a.note = NoId
             THEN NoteResp("api_get_note", u, n, 404, "Note not found")
             ELSE IF ~a.has_access
             THEN NoteResp("api_get_note", u, n, 403, "Access denied")
             ELSE [NoteResp("api_get_note", u, n, 200, "")
                        EXCEPT !.can_edit = <<a.can_edit>>]
    /\ UNCHANGED <<notes, shares, share_req>>
    /\ UNCHANGED user_cache
    /\ OthersUnchangedByNotes

\* What PUT /api/notes/<note_id> carries: each key present or not, at most
\* one of the three flags at a time.
ApiPayloads ==
    {d \in [title : {PyNone, <<" Plans ">>},
            pinned : {PyNone, <<TRUE>>},
            favorite : {PyNone, <<TRUE>>},
            archived : {PyNone, <<TRUE>>}] :
        Cardinality({k \in {"pinned", "favorite", "archived"} : d[k] # PyNone}) <= 1}

\* What the NoteForm of /note/<note_id>/edit carries: at most one checkbox
\* ticked at a time.
NoteForms ==
    {f \in [title : {" Plans "}, pinned : BOOLEAN, favorite : BOOLEAN,
            archived : BOOLEAN] :
        Cardinality({k \in {"pinned", "favorite", "archived"} : f[k]}) <= 1}

\* note_service.py NoteService.update_note: the row it leaves to the flush
update_note(note, u, title, pinned, favorite, archived) ==
    LET owner == note.owner_id # NoId /\ note.owner_id = u
    IN  [note EXCEPT !.title = strip(title),
                     !.pinned = IF owner /\ pinned # PyNone THEN pinned[1] ELSE @,
                     !.favorite = IF owner /\ favorite # PyNone THEN favorite[1] ELSE @,
                     !.archived = IF owner /\ archived # PyNone THEN archived[1] ELSE @]

\* PUT /api/notes/<note_id> with the bearer token of user u
ApiUpdateNote(u, n, data) ==
    /\ u \in DOMAIN users
    /\ LET a == check_note_access(n, u)
       IN  IF a.raised
           THEN /\ note_resp' = NoteResp("api_update_note", u, n, 500, "MultipleResultsFound")
                /\ notes' = notes
           ELSE IF a.note = NoId
           THEN /\ note_resp' = NoteResp("api_update_note", u, n, 404, "Note not found")
                /\ notes' = notes
           ELSE IF ~a.has_access
           THEN /\ note_resp' = NoteResp("api_update_note", u, n, 403, "Access denied")
                /\ notes' = notes
           ELSE IF ~a.can_edit
           THEN /\ note_resp' = NoteResp("api_update_note", u, n, 403,
                        "You do not have edit permissions for this note")
                /\ notes' = notes
           ELSE /\ notes' = [notes EXCEPT ![n] = update_note(@, u,
                        IF data.title = PyNone THEN @.title ELSE data.title[1],
                        data.pinned, data.favorite, data.archived)]
                /\ note_resp' = NoteResp("api_update_note", u, n, 200, "")
    /\ UNCHANGED <<shares, share_req>>
    /\ UNCHANGED user_cache
    /\ OthersUnchangedByNotes

\* POST /note/<note_id>/edit with a valid form
EditNote(c, n, form) ==
    /\ current_user(c) # NoId
    /\ LET u == current_user(c)
       IN  IF n \notin DOMAIN notes
           THEN /\ note_resp' = NoteResp("edit_note", u, n, 404, "")
                /\ notes' = notes
           ELSE IF ~is_owner(n, u) /\ MultipleShares(n, u)
           THEN /\ note_resp' = NoteResp("edit_note", u, n, 500, "MultipleResultsFound")
                /\ notes' = notes
           ELSE IF ~is_owner(n, u)
                   /\ (ShareRow(n, u) = NoId \/ ~shares[ShareRow(n, u)].can_edit)
           THEN /\ note_resp' = NoteResp("edit_note", u, n, 302,
                        "You don't have permission to edit this note.")
                /\ notes' = notes
           ELSE /\ notes' = [notes EXCEPT ![n] =
                        IF is_owner(n, u)
                        THEN [@ EXCEPT !.title = strip(form.title),
                                       !.pinned = form.pinned,
                                       !.favorite = form.favorite,
                                       !.archived = form.archived]
                        ELSE [@ EXCEPT !.title = strip(form.title)]]
                /\ note_resp' = NoteResp("edit_note", u, n, 302, "Note updated!")
    /\ UNCHANGED <<shares, share_req>>
    /\ CurrentUserCalled(c)
    /\ OthersUnchangedByNotes

\* POST /note/<note_id>/toggle-pin
TogglePin(c, n) ==
    /\ current_user(c) # NoId
    /\ LET u == current_user(c)
       IN  IF n \notin DOMAIN notes
           THEN /\ note_resp' = NoteResp("toggle_pin", u, n, 404, "")
                /\ notes' = notes
           ELSE IF notes[n].owner_id = NoId \/ notes[n].owner_id # u
           THEN /\ note_resp' = NoteResp("toggle_pin", u, n, 302,
                        "Only the note owner can pin/unpin notes.")
                /\ notes' = notes
           ELSE /\ notes' = [notes EXCEPT ![n].pinned = ~@]
                /\ note_resp' = NoteResp("toggle_pin", u, n, 302,
                        IF notes'[n].pinned THEN "Note pinned." ELSE "Note unpinned.")
    /\ UNCHANGED <<shares, share_req>>
    /\ CurrentUserCalled(c)
    /\ OthersUnchangedByNotes

\* POST /note/<note_id>/toggle-favorite
ToggleFavorite(c, n) ==
    /\ current_user(c) # NoId
    /\ LET u == current_user(c)
       IN  IF n \notin DOMAIN notes
           THEN /\ note_resp' = NoteResp("toggle_favorite", u, n, 404, "")
                /\ notes' = notes
           ELSE IF ~is_owner(n, u) /\ MultipleShares(n, u)
           THEN /\ note_resp' = NoteResp("toggle_favorite", u, n, 500,
                        "MultipleResultsFound")
                /\ notes' = notes
           ELSE IF ~is_owner(n, u) /\ ShareRow(n, u) = NoId
           THEN /\ note_resp' = NoteResp("toggle_favorite", u, n, 302,
                        "You don't have access to this note.")
                /\ notes' = notes
           ELSE /\ notes' = [notes EXCEPT ![n].favorite = ~@]
                /\ note_resp' = NoteResp("toggle_favorite", u, n, 302,
                        IF notes'[n].favorite THEN "Note favorited." ELSE "Note unfavorited.")
    /\ UNCHANGED <<shares, share_req>>
    /\ CurrentUserCalled(c)
    /\ OthersUnchangedByNotes

\* POST /note/<note_id>/toggle-archive
ToggleArchive(c, n) ==
    /\ current_user(c) # NoId
    /\ LET u == current_user(c)
       IN  IF n \notin DOMAIN notes
           THEN /\ note_resp' = NoteResp("toggle_archive", u, n, 404, "")
                /\ notes' = notes
           ELSE IF notes[n].owner_id = NoId \/ notes[n].owner_id # u
           THEN /\ note_resp' = NoteResp("toggle_archive", u, n, 302,
                        "You can only archive notes you own.")
                /\ notes' = notes
           ELSE /\ notes' = [notes EXCEPT ![n].archived = ~@]
                /\ note_resp' = NoteResp("toggle_archive", u, n, 302,
                        IF notes'[n].archived THEN "Note archived." ELSE "Note unarchived.")
    /\ UNCHANGED <<shares, share_req>>
    /\ CurrentUserCalled(c)
    /\ OthersUnchangedByNotes

\* DELETE FROM notes WHERE id = n
NotesWithout(n) == [m \in DOMAIN notes \ {n} |-> notes[m]]

\* DELETE FROM share_notes WHERE note_id = n
SharesWithoutNote(n) ==
    [s \in {t \in DOMAIN shares : shares[t].note_id # n} |-> shares[s]]

\* A delete route open to whoever may edit the note.
DeleteNoteByEditor(c, n) ==
    /\ current_user(c) # NoId
    /\ LET u == current_user(c)
           a == check_note_access(n, u)
       IN  IF n \notin DOMAIN notes
           THEN /\ note_resp' = NoteResp("delete_note", u, n, 302, "Note not found")
                /\ UNCHANGED <<notes, shares>>
           ELSE IF a.raised \/ ~a.can_edit
           THEN /\ note_resp' = NoteResp("delete_note", u, n, 302,
                        "You can only delete notes you own.")
                /\ UNCHANGED <<notes, shares>>
           ELSE /\ shares' = SharesWithoutNote(n)
                /\ notes' = NotesWithout(n)
                /\ note_resp' = NoteResp("delete_note", u, n, 302, "Note deleted")
    /\ UNCHANGED share_req
    /\ CurrentUserCalled(c)
    /\ OthersUnchangedByNotes

\* POST /note/<note_id>/delete
DeleteNote(c, n) ==
    /\ current_user(c) # NoId
    /\ LET u == current_user(c)
       IN  IF n \notin DOMAIN notes
           THEN /\ note_resp' = NoteResp("delete_note", u, n, 302, "Note not found")
                /\ UNCHANGED <<notes, shares>>
           ELSE IF notes[n].owner_id = NoId \/ notes[n].owner_id # u
           THEN /\ note_resp' = NoteResp("delete_note", u, n, 302,
                        "You can only delete notes you own.")
                /\ UNCHANGED <<notes, shares>>
           ELSE /\ shares' = SharesWithoutNote(n)
                /\ notes' = NotesWithout(n)
                /\ note_resp' = NoteResp("delete_note", u, n, 302, "Note deleted")
    /\ UNCHANGED share_req
    /\ CurrentUserCalled(c)
    /\ OthersUnchangedByNotes

\* DELETE /api/notes/<note_id> with the bearer token of user u; s.delete(note)
\* cascades to note.shares.
ApiDeleteNote(u, n) ==
    /\ u \in DOMAIN users
    /\ IF n \notin DOMAIN notes
       THEN /\ note_resp' = NoteResp("api_delete_note", u, n, 404, "Note not found")
            /\ UNCHANGED <<notes, shares>>
       ELSE IF notes[n].owner_id # u
       THEN /\ note_resp' = NoteResp("api_delete_note", u, n, 403,
                    "Only the note owner can delete it")
            /\ UNCHANGED <<notes, shares>>
       ELSE /\ shares' = SharesWithoutNote(n)
            /\ notes' = NotesWithout(n)
            /\ note_resp' = NoteResp("api_delete_note", u, n, 200,
                    "Note deleted successfully")
    /\ UNCHANGED share_req
    /\ UNCHANGED user_cache
    /\ OthersUnchangedByNotes

\* POST /note/<note_id>/share up to s.add(share): the checks, and the row the
\* commit will insert.
ShareNote(c, n, username, can_edit) ==
    /\ current_user(c) # NoId
    /\ share_req[c].pc = "idle"
    /\ LET u == current_user(c)
           w == UserByUsername(username)
       IN  IF n \notin DOMAIN notes
           THEN /\ note_resp' = NoteResp("share_note", u, n, 404, "")
                /\ share_req' = share_req
           ELSE IF notes[n].owner_id = NoId \/ notes[n].owner_id # u
           THEN /\ note_resp' = NoteResp("share_note", u, n, 302,
                        "You can only share notes you own.")
                /\ share_req' = share_req
           ELSE IF w = NoId
           THEN /\ note_resp' = NoteResp("share_note", u, n, 200, "User not found.")
                /\ share_req' = share_req
           ELSE IF w = u
           THEN /\ note_resp' = NoteResp("share_note", u, n, 200,
                        "You cannot share a note with yourself.")
                /\ share_req' = share_req
           ELSE IF MultipleShares(n, w)
           THEN /\ note_resp' = NoteResp("share_note", u, n, 500, "MultipleResultsFound")
                /\ share_req' = share_req
           ELSE IF ShareRow(n, w) # NoId
           THEN /\ note_resp' = NoteResp("share_note", u, n, 200, "Note is already shared")
                /\ share_req' = share_req
           ELSE /\ share_req' = [share_req EXCEPT ![c] =
                        [pc |-> "commit", note_id |-> n, shared_by_id |-> u,
                         shared_with_id |-> w, can_edit |-> can_edit]]
                /\ note_resp' = note_resp
    /\ UNCHANGED <<notes, shares>>
    /\ CurrentUserCalled(c)
    /\ OthersUnchangedByNotes

\* The rowid SQLite gives the next row of share_notes.
NextShareId ==
    IF DOMAIN shares = {} THEN 1
    ELSE 1 + CHOOSE s \in DOMAIN shares : \A t \in DOMAIN shares : t <= s

\* s.commit() of /note/<note_id>/share: INSERT INTO share_notes; the foreign
\* keys are not enforced.
ShareNoteCommit(c) ==
    /\ share_req[c].pc = "commit"
    /\ NextShareId \in ShareIds
    /\ shares' = [s \in DOMAIN shares \cup {NextShareId} |->
                    IF s \in DOMAIN shares THEN shares[s]
                    ELSE [id |-> s, note_id |-> share_req[c].note_id,
                          shared_by_id |-> share_req[c].shared_by_id,
                          shared_with_id |-> share_req[c].shared_with_id,
                          can_edit |-> share_req[c].can_edit]]
    /\ note_resp' = NoteResp("share_note", share_req[c].shared_by_id,
                             share_req[c].note_id, 302, "Note shared")
    /\ share_req' = [share_req EXCEPT ![c] = IdleShareReq]
    /\ UNCHANGED notes
    /\ UNCHANGED user_cache
    /\ OthersUnchangedByNotes

\* POST /note/<note_id>/unshare/<share_id>
UnshareNote(c, n, share_id) ==
    /\ current_user(c) # NoId
    /\ LET u == current_user(c)
       IN  IF n \notin DOMAIN notes \/ notes[n].owner_id = NoId \/ notes[n].owner_id # u
           THEN /\ note_resp' = NoteResp("unshare_note", u, n, 302,
                        "You can only unshare notes you own.")
                /\ shares' = shares
           ELSE IF share_id \in DOMAIN shares /\ shares[share_id].note_id = n
           THEN /\ shares' = [s \in DOMAIN shares \ {share_id} |-> shares[s]]
                /\ note_resp' = NoteResp("unshare_note", u, n, 302,
                        "Note unshared successfully.")
           ELSE /\ note_resp' = NoteResp("unshare_note", u, n, 302, "Share not found.")
                /\ shares' = shares
    /\ UNCHANGED <<notes, share_req>>
    /\ CurrentUserCalled(c)
    /\ OthersUnchangedByNotes

\* Rows of notes the model stores at a time; ids are SQLite rowids.
NoteIds == {1}

\* The rowid SQLite gives the next row of notes: one more than the largest
\* stored, so the id of a deleted last row is given again.
NextNoteId ==
    IF DOMAIN notes = {} THEN 1
    ELSE 1 + CHOOSE n \in DOMAIN notes : \A m \in DOMAIN notes : m <= n

\* POST /api/notes with the bearer token of user u and a title
ApiCreateNote(u, title) ==
    /\ u \in DOMAIN users
    /\ NextNoteId \in NoteIds
    /\ notes' = [n \in DOMAIN notes \cup {NextNoteId} |->
                    IF n \in DOMAIN notes THEN notes[n]
                    ELSE [id |-> n, owner_id |-> u, title |-> strip(title),
                          pinned |-> FALSE, favorite |-> FALSE, archived |-> FALSE]]
    /\ note_resp' = NoteResp("api_create_note", u, NextNoteId, 201, "")
    /\ UNCHANGED <<shares, share_req>>
    /\ UNCHANGED user_cache
    /\ OthersUnchangedByNotes

Init ==
    /\ now = 0
    /\ users = InitUsers
    /\ sessions = [c \in Clients |-> NoSession]
    /\ reset_tokens = <<>>
    /\ req = [c \in Clients |-> IdleReq]
    /\ db_writer = NoId
    /\ redeemed = <<>>
    /\ reset_resp = NoResetResp
    /\ login_resp = NoLoginResp
    /\ login_trace = [c \in Clients |-> NoLoginTrace]
    /\ jwt_resp = NoJwtResp
    /\ invitations = <<>>
    /\ valid_resp = NoValidResp
    /\ reg = [c \in Clients |-> IdleReg]
    /\ reg_resp = [c \in Clients |-> NoRegResp]
    /\ NoNotes
    /\ user_cache = [c \in Clients |-> NoCache]
    /\ policy_resp = <<>>

\* The password-reset routes, concurrently for two clients.
NextReset ==
    \/ \E c \in Clients, name \in Usernames : ForgotPassword(c, name)
    \/ \E c \in Clients, code \in TotpCodes : Verify2FAReset(c, code)
    \/ \E c \in Clients, name \in Usernames : create_password_reset_token(c, name)
    \/ \E c \in Clients : IssueCommit(c)
    \/ \E tok \in TokenInputs : ResetPasswordGet(tok)
    \/ \E c \in Clients, tok \in TokenInputs, pw \in NewPasswords : ResetPasswordPost(c, tok, pw)
    \/ \E c \in Clients : ResetPasswordCommit(c)
    \/ \E c \in Clients : ResetCommitBusy(c)
    \/ Tick

SpecReset == Init /\ [][NextReset]_vars

SpecLogin == Init /\ [][NextLogin]_vars

SpecJwt == Init /\ [][NextJwt]_vars

\* The two tables hold one row each, of any content; is_valid() is called on
\* them as time passes.
InitValid ==
    /\ now = 0
    /\ users = InitUsers
    /\ sessions = [c \in Clients |-> NoSession]
    /\ reset_tokens \in {<<row>> : row \in StoredResetTokens}
    /\ req = [c \in Clients |-> IdleReq]
    /\ db_writer = NoId
    /\ redeemed = <<0>>
    /\ reset_resp = NoResetResp
    /\ login_resp = NoLoginResp
    /\ login_trace = [c \in Clients |-> NoLoginTrace]
    /\ jwt_resp = NoJwtResp
    /\ invitations \in {<<row>> : row \in StoredInvitations}
    /\ valid_resp = NoValidResp
    /\ reg = [c \in Clients |-> IdleReg]
    /\ reg_resp = [c \in Clients |-> NoRegResp]
    /\ NoNotes
    /\ user_cache = [c \in Clients |-> NoCache]
    /\ policy_resp = <<>>

NextValid ==
    \/ \E i \in DOMAIN reset_tokens : PasswordResetTokenIsValid(i)
    \/ \E i \in DOMAIN invitations : InvitationIsValid(i)
    \/ Tick

SpecValid == InitValid /\ [][NextValid]_vars

\* One client is logged in as alice, the other is anonymous; one invitation
\* is open for an hour.
InitRegister ==
    /\ now = 0
    /\ users = InitUsers
    /\ sessions = [c \in Clients |->
            IF c = 1 THEN [NoSession EXCEPT !.user_id = 1] ELSE NoSession]
    /\ reset_tokens = <<>>
    /\ req = [c \in Clients |-> IdleReq]
    /\ db_writer = NoId
    /\ redeemed = <<>>
    /\ reset_resp = NoResetResp
    /\ login_resp = NoLoginResp
    /\ login_trace = [c \in Clients |-> NoLoginTrace]
    /\ jwt_resp = NoJwtResp
    /\ invitations = <<[token |-> 1, inviter_id |-> 1, used |-> FALSE,
                        used_by_id |-> NoId, expires_at |-> 1]>>
    /\ valid_resp = NoValidResp
    /\ reg = [c \in Clients |-> IdleReg]
    /\ reg_resp = [c \in Clients |-> NoRegResp]
    /\ NoNotes
    /\ user_cache = [c \in Clients |-> NoCache]
    /\ policy_resp = <<>>

\* Registration and profile editing, concurrently for two clients.
NextRegister ==
    \/ \E c \in Clients, username \in RegisterUsernames, email \in RegisterEmails,
          pw \in NewPasswords, token \in InvitationInputs :
            Register(c, username, email, pw, token)
    \/ \E c \in Clients : RegisterCheckEmail(c)
    \/ \E c \in Clients : RegisterFlush(c)
    \/ \E c \in Clients : RegisterBusy(c)
    \/ \E c \in Clients : RegisterCommit(c)
    \/ \E c \in Clients, username \in ProfileUsernames, email \in ProfileEmails :
            EditProfile(c, username, email)
    \/ \E c \in Clients : EditProfileCommit(c)
    \/ \E c \in Clients : EditProfileBusy(c)
    \/ \E c \in Clients : Logout(c)
    \/ Tick

SpecRegister == InitRegister /\ [][NextRegister]_vars


\* ===================================================== password reset claims

\* The rows of a user that a redeem would accept now.
ActiveTokens(u) ==
    {i \in DOMAIN reset_tokens :
        reset_tokens[i].user_id = u /\ is_valid(reset_tokens[i], now)}

\* C5: single use under concurrency: of the completions that present one
\* reset token, at most one completes successfully and changes the password.
C5_SingleUseUnderConcurrency ==
    \A i \in DOMAIN redeemed : redeemed[i] <= 1

\* C6: issuing a second reset token for a user invalidates the first: once a
\* later token B of the same user is issued, a redeem of the earlier token A
\* (the POST's service call and the GET's check) reports invalid, also while
\* A has not expired.
C6_SecondTokenInvalidatesFirst ==
    \A a, b \in DOMAIN reset_tokens :
        (a < b /\ reset_tokens[a].user_id = reset_tokens[b].user_id)
        => /\ ~reset_password(reset_tokens[a].token, PwNewA, now).success
           /\ reset_password(reset_tokens[a].token, PwNewA, now).message
                = "Invalid or expired reset token."
           /\ ResetTokenCheck("reset_password_get", reset_tokens[a].token, now).outcome
                = "redirect_forgot_password"

\* C6 witness: a user has two tokens, and the earlier one has not expired and
\* was never redeemed.
C6_Witness ==
    \E a, b \in DOMAIN reset_tokens :
        /\ a < b
        /\ reset_tokens[a].user_id = reset_tokens[b].user_id
        /\ now < reset_tokens[a].expires_at
        /\ redeemed[a] = 0
        /\ is_valid(reset_tokens[b], now)

\* C7: in every reachable state, whatever the interleaving of the issuing
\* requests, each user has at most one active (unused, unexpired) reset token.
C7_AtMostOneActiveToken ==
    \A u \in UserIds : Cardinality(ActiveTokens(u)) <= 1

\* C7 witness: a user was issued a second token while a completion that
\* presented the first was in flight: the user has two rows, one of them
\* active, and the completion has still to commit.
C7_Witness ==
    \E u \in UserIds, c \in Clients :
        /\ Cardinality({i \in DOMAIN reset_tokens : reset_tokens[i].user_id = u}) = 2
        /\ Cardinality(ActiveTokens(u)) = 1
        /\ req[c].pc = "reset_commit"
        /\ req[c].user = u
        /\ req[c].tok \notin ActiveTokens(u)

\* C8: after a reset token was consumed by a successful reset, every later
\* redeem of that token is rejected as invalid: the response is the
\* invalid-token redirect, nothing is left to commit and no password or
\* token row changes, whether or not the token has expired.  Stated as: no
\* step that ends otherwise is a POST that presents a consumed token (a POST
\* is made by a client without a request in flight and answers as a POST).
C8_ConsumedTokenRejected ==
    [][\A c \in Clients :
        (/\ req[c].pc = "idle"
         /\ reset_resp'.route = "reset_password_post"
         /\ \/ reset_resp'.outcome # "redirect_forgot_password"
            \/ reset_resp'.msg # "Invalid or expired reset token."
            \/ req'[c].pc # "idle"
            \/ users' # users
            \/ reset_tokens' # reset_tokens)
        => \A tok \in TokenInputs, pw \in NewPasswords :
            (TokenRow(tok) # NoId /\ redeemed[TokenRow(tok)] >= 1)
            => ~ResetPasswordPost(c, tok, pw)]_vars

\* C8 witness: the latest response rejects a POST that presented a token
\* which a reset had consumed and which has not expired.
C8_Witness ==
    /\ reset_resp.route = "reset_password_post"
    /\ reset_resp.outcome = "redirect_forgot_password"
    /\ TokenRow(reset_resp.tok) # NoId
    /\ redeemed[TokenRow(reset_resp.tok)] >= 1
    /\ now < reset_tokens[TokenRow(reset_resp.tok)].expires_at

\* C9: completion is all-or-nothing: a POST whose new password violates the
\* policy changes no row and leaves nothing to commit (no step that does
\* otherwise is such a POST); the step that ends a completion either writes
\* the new hash and used = TRUE together or writes neither.
C9_ResetAllOrNothing ==
    [][/\ \A c \in Clients :
            (/\ req[c].pc = "idle"
             /\ reset_resp'.route = "reset_password_post"
             /\ (users' # users \/ reset_tokens' # reset_tokens \/ req'[c].pc # "idle"))
            => \A tok \in TokenInputs, pw \in NewPasswords :
                    password_policy_errors(pw) # <<>> => ~ResetPasswordPost(c, tok, pw)
       /\ \A c \in Clients :
            (req[c].pc = "reset_commit" /\ req'[c].pc = "idle")
            => \/ /\ users'[req[c].user].password_hash = generate_password_hash(req[c].pw)
                  /\ reset_tokens'[req[c].tok].used
               \/ /\ users' = users
                  /\ reset_tokens' = reset_tokens]_vars

\* C9 witness: a POST with a policy-violating password was answered with the
\* form again (its token was valid), and a token can still be redeemed.
C9_Witness ==
    /\ reset_resp.route = "reset_password_post"
    /\ reset_resp.outcome = "render_form"
    /\ \E i \in DOMAIN reset_tokens :
            reset_password(reset_tokens[i].token, PwNewA, now).success

\* C10: checking a token's validity never consumes it: a GET of
\* /reset-password/<token>, and the check a POST makes before its commit,
\* leave every token row (used, expires_at) and every user row unchanged: no
\* step that changes a row is such a check.
C10_ValidityCheckIsReadOnly ==
    [][(reset_tokens' # reset_tokens \/ users' # users)
       => /\ \A tok \in TokenInputs : ~ResetPasswordGet(tok)
          /\ \A c \in Clients, tok \in TokenInputs, pw \in NewPasswords :
                ~ResetPasswordPost(c, tok, pw)]_vars

\* C10 witness: a GET found its token valid, and a token that was never
\* redeemed is valid.
C10_Witness ==
    /\ reset_resp.route = "reset_password_get"
    /\ reset_resp.outcome = "render_form"
    /\ \E i \in DOMAIN reset_tokens :
            is_valid(reset_tokens[i], now) /\ redeemed[i] = 0

\* C8 as stated: the rejection of a consumed token reports it as already
\* used, a report that a token which was never issued does not get: no step
\* that answers as to a token never issued is a POST of a consumed token.
C8_ReportsTokenAlreadyUsed ==
    [][reset_resp'.msg = reset_password(NoId, PwNewA, now).message
       => \A c \in Clients, tok \in TokenInputs, pw \in NewPasswords :
            (TokenRow(tok) # NoId /\ redeemed[TokenRow(tok)] >= 1)
            => ~ResetPasswordPost(c, tok, pw)]_vars

\* ============================================================= login claims

\* C1: in every session state, a session whose user_id is set is that of the
\* user whose password was last checked in it, and if that user had a TOTP
\* secret at that check then verify_2fa accepted a code for that user since;
\* a POST /login with the correct password of a user with a TOTP secret sets
\* pre_2fa_user_id and leaves the session without user_id.  (Such a POST is
\* among the steps of a session without user_id that leave the API response
\* and the clock alone and after which the session's last password check is
\* one that found a TOTP secret.)
C1_SecondFactorGate ==
    /\ [](\A c \in Clients :
            sessions[c].user_id # NoId
            => /\ login_trace[c].pw_user = sessions[c].user_id
               /\ login_trace[c].pw_had_totp
                    => login_trace[c].totp_user = sessions[c].user_id)
    /\ [][\A c \in Clients, name \in LoginIds, pw \in LoginPasswords :
            (/\ login_resp' = login_resp
             /\ now' = now
             /\ login_trace'[c].pw_had_totp
             /\ sessions[c].user_id = NoId
             /\ authenticate_user(name, pw) # NoId
             /\ users[authenticate_user(name, pw)].totp_secret # NoId
             /\ Login(c, name, pw))
            => /\ sessions'[c].user_id = NoId
               /\ sessions'[c].pre_2fa_user_id = authenticate_user(name, pw)]_vars

\* C1 witness: one session is authenticated after a password check that found
\* a TOTP secret and a code verify_2fa accepted, while another has passed the
\* password check of a TOTP user and holds only the pending marker.
C1_Witness ==
    \E c, d \in Clients :
        /\ sessions[c].user_id # NoId
        /\ login_trace[c].pw_had_totp
        /\ login_trace[c].totp_user = sessions[c].user_id
        /\ users[sessions[c].user_id].totp_secret # NoId
        /\ sessions[d].user_id = NoId
        /\ sessions[d].pre_2fa_user_id # NoId
        /\ login_trace[d].pw_had_totp

\* C2: POST /api/auth/login with the correct password of a user with a TOTP
\* secret: without totp_code the answer is 401 with requires_2fa, no token is
\* issued and no row changes; with the code of the current time step the
\* answer is 200 with an access and a refresh token of that user, and the
\* user's last_login is the time of the request.  (Such a POST is among the
\* steps that answer on the API login route and leave the sessions, the
\* login attempts, the clock and the TOTP secrets alone.)
C2_ApiLoginSecondFactor ==
    [][(/\ login_resp'.route = "api_login"
        /\ sessions' = sessions
        /\ login_trace' = login_trace
        /\ now' = now
        /\ \A u \in UserIds : users'[u].totp_secret = users[u].totp_secret)
       => \A name \in LoginIds, pw \in LoginPasswords :
            (/\ authenticate_user(name, pw) # NoId
             /\ users[authenticate_user(name, pw)].totp_secret # NoId)
            => LET u == authenticate_user(name, pw)
               IN  /\ \/ /\ login_resp'.status = 401
                         /\ login_resp'.requires_2fa
                         /\ login_resp'.access_token = NoToken
                         /\ login_resp'.refresh_token = NoToken
                         /\ users' = users
                      \/ ~ApiLogin(name, pw, NoCode)
                   /\ \/ /\ login_resp'.status = 200
                         /\ login_resp'.access_token.sig_ok
                         /\ login_resp'.access_token.type = "access"
                         /\ login_resp'.access_token.user_id = u
                         /\ login_resp'.refresh_token.sig_ok
                         /\ login_resp'.refresh_token.type = "refresh"
                         /\ login_resp'.refresh_token.user_id = u
                         /\ users'[u].last_login = now
                      \/ ~ApiLogin(name, pw, TotpAt(users[u].totp_secret, now))]_vars

\* C2 witness: a request was answered 200 at this tick for a user who has
\* had a TOTP secret all along and whose last_login moved to this tick.
C2_Witness ==
    /\ login_resp.route = "api_login"
    /\ login_resp.status = 200
    /\ login_resp.access_token.exp = now + AccessTTL
    /\ InitUsers[login_resp.user].totp_secret # NoId
    /\ users[login_resp.user].totp_secret = InitUsers[login_resp.user].totp_secret
    /\ users[login_resp.user].last_login = now
    /\ now > 0

\* =============================================================== JWT claims

\* C3: an endpoint guarded by jwt_required answers 401 to every request whose
\* bearer token is a validly signed, unexpired refresh token.
C3_RefreshTokenNeverAccepted ==
    (/\ jwt_resp.route = "api_validate"
     /\ jwt_resp.scheme = "bearer"
     /\ jwt_resp.token.sig_ok
     /\ jwt_resp.token.type = "refresh"
     /\ jwt_resp.t < jwt_resp.token.exp)
    => jwt_resp.status = 401

\* C4: refresh_access_token with a validly signed, unexpired access token
\* fails with 'Token is not a refresh token' and mints nothing, and so
\* POST /api/auth/refresh answers 401 with that error and no access token.
C4_AccessTokenNotRefreshable ==
    /\ \A token \in JwtTokens :
        (token.sig_ok /\ token.type = "access" /\ now < token.exp)
        => refresh_access_token(token, now)
            = [success |-> FALSE, new_token |-> NoToken,
               error |-> "Token is not a refresh token"]
    /\ (/\ jwt_resp.route = "api_refresh"
        /\ jwt_resp.token.sig_ok
        /\ jwt_resp.token.type = "access"
        /\ jwt_resp.t < jwt_resp.token.exp)
       => /\ jwt_resp.status = 401
          /\ jwt_resp.error = "Token is not a refresh token"
          /\ jwt_resp.access_token = NoToken

\* C4 witness: the refresh endpoint was given an access token that
\* generate_token mints at this time for a stored user.
C4_Witness ==
    /\ jwt_resp.route = "api_refresh"
    /\ jwt_resp.token \in {generate_token(u, jwt_resp.t) : u \in UserIds}
    /\ jwt_resp.error = "Token is not a refresh token"
\* No request of the second client has left a trace: it may start one.
SecondClientFresh ==
    /\ reg[2].pc = "idle" /\ req[2].pc = "idle"
    /\ DOMAIN users = UserIds
    /\ reset_tokens = <<>>
    /\ jwt_resp = NoJwtResp

\* The login routes of one browser and of the API, next to one other kind of
\* request at a time: a registration or a password reset by a second client,
\* which hold the write lock up to their commit, or calls with the bearer
\* tokens that a login returned.
NextLastLogin ==
    \/ \E name \in {"alice", "bob"}, pw \in LoginPasswords : Login(1, name, pw)
    \/ \E code \in TotpCodes : Verify2FA(1, code)
    \/ Logout(1)
    \/ \E name \in {"alice", "bob"}, pw \in LoginPasswords, code \in TotpCodes \cup {NoCode} :
            ApiLogin(name, pw, code)
    \/ SecondClientFresh /\ Register(2, "carol", NoEmail, PwNewA, NoId)
    \/ RegisterFlush(2)
    \/ RegisterCommit(2)
    \/ (reg[2].pc = "idle" /\ DOMAIN users = UserIds /\ jwt_resp = NoJwtResp
            /\ reset_tokens = <<>>)
            /\ ForgotPassword(2, "alice")
    \/ IssueCommit(2)
    \/ \E tok \in TokenInputs \ {NoId} : ResetPasswordPost(2, tok, PwNewA)
    \/ ResetPasswordCommit(2)
    \/ (reg[2].pc = "idle" /\ req[2].pc = "idle" /\ DOMAIN users = UserIds
            /\ reset_tokens = <<>> /\ login_resp.status = 200)
            /\ \/ ApiValidate(Bearer(login_resp.access_token))
               \/ ApiRefresh(login_resp.refresh_token)
    \/ Tick

SpecLastLogin == Init /\ [][NextLastLogin]_vars

\* The login routes next to a profile edit of alice, who may take a username
\* or an email that another account uses as its email.
NextEnum ==
    \/ \E name \in LoginIds, pw \in LoginPasswords : Login(2, name, pw)
    \/ \E code \in TotpCodes : Verify2FA(2, code)
    \/ Logout(2)
    \/ \E name \in LoginIds, pw \in LoginPasswords, code \in TotpCodes \cup {NoCode} :
            ApiLogin(name, pw, code)
    \/ \E name \in {"alice", "bob@example.com"}, email \in ProfileEmails :
            EditProfile(1, name, email)
    \/ EditProfileCommit(1)
    \/ Tick

SpecEnum == InitRegister /\ [][NextEnum]_vars

\* ---------------------------------------------------------------- C11
\* Alice owns one note; her two browser sessions, or hers and bob's, and both
\* users' bearer tokens, drive the note routes. A deleted note can be followed
\* by a new one of either user.
InitNotes ==
    /\ now = 0
    /\ users = InitUsers
    /\ sessions \in {[c \in Clients |-> [NoSession EXCEPT !.user_id = f[c]]] :
                        f \in {<<1, 1>>, <<1, 2>>}}
    /\ reset_tokens = <<>>
    /\ req = [c \in Clients |-> IdleReq]
    /\ db_writer = NoId
    /\ redeemed = <<>>
    /\ reset_resp = NoResetResp
    /\ login_resp = NoLoginResp
    /\ login_trace = [c \in Clients |-> NoLoginTrace]
    /\ jwt_resp = NoJwtResp
    /\ invitations = <<>>
    /\ valid_resp = NoValidResp
    /\ reg = [c \in Clients |-> IdleReg]
    /\ reg_resp = [c \in Clients |-> NoRegResp]
    /\ notes = <<AliceNote>>
    /\ shares = <<>>
    /\ share_req = [c \in Clients |-> IdleShareReq]
    /\ note_resp = NoNoteResp
    /\ user_cache = [c \in Clients |-> cache_user_in_session(InitUsers[sessions[c].user_id])]
    /\ policy_resp = <<>>

NextNotes ==
    \/ \E u \in UserIds, n \in NoteInputs : ApiGetNote(u, n)
    \/ \E u \in UserIds, n \in NoteInputs, data \in ApiPayloads : ApiUpdateNote(u, n, data)
    \/ \E c \in Clients, n \in NoteInputs, form \in NoteForms : EditNote(c, n, form)
    \/ \E c \in Clients, n \in NoteInputs : TogglePin(c, n)
    \/ \E c \in Clients, n \in NoteInputs : ToggleFavorite(c, n)
    \/ \E c \in Clients, n \in NoteInputs : ToggleArchive(c, n)
    \/ \E c \in Clients, n \in NoteInputs : DeleteNote(c, n)
    \/ \E u \in UserIds, n \in NoteInputs : ApiDeleteNote(u, n)
    \/ \E c \in Clients, n \in NoteInputs, username \in Usernames, can_edit \in BOOLEAN :
            ShareNote(c, n, username, can_edit)
    \/ \E c \in Clients : ShareNoteCommit(c)
    \/ \E c \in Clients, n \in NoteInputs, share_id \in ShareIds : UnshareNote(c, n, share_id)
    \/ \E u \in UserIds, title \in Titles : ApiCreateNote(u, title)

SpecNotes == InitNotes /\ [][NextNotes]_vars


\* ------------------------------------------------- the cached user of a session
\* Two browser sessions, logged in as alice both or as alice and bob, with
\* nothing cached yet.
InitCache ==
    /\ now = 0
    /\ users = InitUsers
    /\ sessions \in {[c \in Clients |-> [NoSession EXCEPT !.user_id = f[c]]] :
                        f \in {<<1, 1>>, <<1, 2>>}}
    /\ reset_tokens = <<>>
    /\ req = [c \in Clients |-> IdleReq]
    /\ db_writer = NoId
    /\ redeemed = <<>>
    /\ reset_resp = NoResetResp
    /\ login_resp = NoLoginResp
    /\ login_trace = [c \in Clients |-> NoLoginTrace]
    /\ jwt_resp = NoJwtResp
    /\ invitations = <<>>
    /\ valid_resp = NoValidResp
    /\ reg = [c \in Clients |-> IdleReg]
    /\ reg_resp = [c \in Clients |-> NoRegResp]
    /\ NoNotes
    /\ user_cache = [c \in Clients |-> NoCache]
    /\ policy_resp = <<>>

\* What the sessions type as username in /profile/edit
CacheUsernames == {"alice", AdminName}

NextCache ==
    \/ \E c \in Clients, username \in CacheUsernames :
            EditProfile(c, username, users[sessions[c].user_id].email)
    \/ \E c \in Clients : EditProfileCommit(c)
    \/ \E c \in Clients : ToggleTheme(c)
    \/ \E c \in Clients, secret \in TotpSecrets, code \in TotpCodes : Setup2FA(c, secret, code)
    \/ \E c \in Clients : Disable2FA(c)
    \/ \E c \in Clients : Profile(c)
    \/ \E c \in Clients : AdminUsers(c)

SpecCache == InitCache /\ [][NextCache]_vars

\* --------------------------------------------- logging in after a reset
\* The passwords a reset asks for: a fresh one, the one alice has, and one the
\* policy refuses; and the passwords a login tries afterwards.
ReloginNewPasswords == {PwNewA, PwAlice, PwShort}
ReloginPasswords == {PwAlice, PwBob, PwNewA}

\* The second client resets the password of alice or of bob (who has to give
\* his TOTP code first); the first client logs in with old and new passwords.
NextRelogin ==
    \/ \E name \in {"alice", "bob"} : ForgotPassword(2, name)
    \/ \E code \in TotpCodes : Verify2FAReset(2, code)
    \/ IssueCommit(2)
    \/ \E tok \in TokenInputs \ {NoId}, pw \in ReloginNewPasswords :
            ResetPasswordPost(2, tok, pw)
    \/ ResetPasswordCommit(2)
    \/ \E name \in {"alice", "bob"}, pw \in ReloginPasswords : Login(1, name, pw)
    \/ Logout(1)

SpecRelogin == Init /\ [][NextRelogin]_vars

\* ------------------------------------------------- redeeming an invitation
\* The names the invited people ask for
InviteeUsernames == {"carol", "dave"}

\* Two clients register with the invitation alice sent, or without one, while
\* time passes; the first client was logged in as alice.
NextInvite ==
    \/ \E c \in Clients, username \in InviteeUsernames, token \in InvitationInputs :
            Register(c, username, NoEmail, PwNewA, token)
    \/ \E c \in Clients : RegisterFlush(c)
    \/ \E c \in Clients : RegisterBusy(c)
    \/ \E c \in Clients : RegisterCommit(c)
    \/ Logout(1)
    \/ Tick

SpecInvite == InitRegister /\ [][NextInvite]_vars

\* ------------------------------------------ the life of the two token kinds
\* The second client asks for reset tokens and spends them, and registers
\* with and without alice's invitation, while time passes.
NextTokens ==
    \/ \E name \in {"alice", "nobody"} : ForgotPassword(2, name)
    \/ IssueCommit(2)
    \/ \E tok \in TokenInputs, pw \in NewPasswords : ResetPasswordPost(2, tok, pw)
    \/ ResetPasswordCommit(2)
    \/ \E username \in InviteeUsernames, token \in InvitationInputs :
            Register(2, username, NoEmail, PwNewA, token)
    \/ RegisterFlush(2)
    \/ RegisterCommit(2)
    \/ Tick

SpecTokens == InitRegister /\ [][NextTokens]_vars

\* ------------------------------------------- asking for a reset token
\* What POST /forgot-password answers to a caller without a session, when its
\* commit succeeds: the page or the target of the redirect, and the flashed
\* message.
ForgotPasswordResponse(username) ==
    LET u == UserByUsername(username)
    IN  IF u = NoId
        THEN [status |-> 302, location |-> "login", page |-> "",
              flash |-> "If that username exists, a password reset token has been generated."]
        ELSE IF users[u].totp_secret # NoId
        THEN [status |-> 302, location |-> "verify_2fa_reset", page |-> "", flash |-> ""]
        ELSE [status |-> 200, location |-> "",
              page |-> "forgot_password.html token_generated", flash |-> ""]

\* Two anonymous clients ask for reset tokens through /forgot-password and
\* /verify-2fa-reset while time passes.
NextForgot ==
    \/ \E c \in Clients, name \in Usernames : ForgotPassword(c, name)
    \/ \E c \in Clients, code \in TotpCodes : Verify2FAReset(c, code)
    \/ \E c \in Clients : IssueCommit(c)
    \/ Tick

SpecForgot == Init /\ [][NextForgot]_vars

\* ------------------------------------------------ the paths to set_password
\* A fresh database at startup, or the two users with alice logged in.
InitPassword ==
    /\ now = 0
    /\ users \in {<<>>, InitUsers}
    /\ sessions = [c \in Clients |->
            IF c = 1 /\ users # <<>> THEN [NoSession EXCEPT !.user_id = 1] ELSE NoSession]
    /\ reset_tokens = <<>>
    /\ req = [c \in Clients |-> IdleReq]
    /\ db_writer = NoId
    /\ redeemed = <<>>
    /\ reset_resp = NoResetResp
    /\ login_resp = NoLoginResp
    /\ login_trace = [c \in Clients |-> NoLoginTrace]
    /\ jwt_resp = NoJwtResp
    /\ invitations = <<>>
    /\ valid_resp = NoValidResp
    /\ reg = [c \in Clients |-> IdleReg]
    /\ reg_resp = [c \in Clients |-> NoRegResp]
    /\ NoNotes
    /\ user_cache = [c \in Clients |-> NoCache]
    /\ policy_resp = <<>>

\* The second client has no request in flight.
SecondClientIdle == reg[2].pc = "idle" /\ req[2].pc = "idle"

\* Every caller of set_password with every password input: the startup, the
\* registration of carol, alice changing her password, and a reset for alice.
NextPassword ==
    \/ \E pw \in PasswordInputs : EnsureAdmin(pw)
    \/ \E pw \in PasswordInputs : SecondClientIdle /\ Register(2, "carol", NoEmail, pw, NoId)
    \/ RegisterFlush(2)
    \/ RegisterCommit(2)
    \/ \E current \in {PwAlice, PwNewA}, pw \in PasswordInputs : ChangePassword(1, current, pw)
    \/ (SecondClientIdle /\ reset_tokens = <<>>) /\ ForgotPassword(2, "alice")
    \/ IssueCommit(2)
    \/ \E tok \in TokenInputs \ {NoId}, pw \in PasswordInputs :
            SecondClientIdle /\ ResetPasswordPost(2, tok, pw)
    \/ ResetPasswordCommit(2)

SpecPassword == InitPassword /\ [][NextPassword]_vars

\* ------------------------------------------------------ the password policy
\* The kinds of character the policy tells apart: str.islower, str.isupper,
\* str.isdigit, string.punctuation, str.isspace, and whatever is none of them.
CharClasses == {"lower", "upper", "digit", "punct", "space", "other"}

\* How many characters of one kind a password input has
CharCounts == {0, 1, 4}

RECURSIVE CountSum(_, _)
CountSum(count, classes) ==
    IF classes = {} THEN 0
    ELSE LET k == CHOOSE x \in classes : TRUE
         IN  count[k] + CountSum(count, classes \ {k})

\* The password made of count[k] characters of each kind k
PasswordOf(count) ==
    [name |-> IF CountSum(count, CharClasses) = 0 THEN "" ELSE "composed",
     len |-> CountSum(count, CharClasses),
     lower |-> count["lower"] > 0, upper |-> count["upper"] > 0,
     digit |-> count["digit"] > 0, punct |-> count["punct"] > 0,
     space |-> count["space"] > 0]

\* The arguments of password_policy_errors: None, "", and longer strings
PolicyInputs ==
    {PyNonePassword} \cup {PasswordOf(count) : count \in [CharClasses -> CharCounts]}

\* A call of password_policy_errors, with what it returns
PasswordPolicyErrors(password) ==
    /\ policy_resp' = <<[password |-> password, errors |-> password_policy_errors(password)]>>
    /\ UNCHANGED <<now, users, sessions, reset_tokens, req, db_writer, redeemed,
                   reset_resp, login_resp, login_trace, jwt_resp, valid_vars, reg_vars,
                   note_vars, user_cache>>

NextPolicy == \E password \in PolicyInputs : PasswordPolicyErrors(password)

SpecPolicy == Init /\ [][NextPolicy]_vars

\* C11: for a PasswordResetToken and for an Invitation, is_valid() returns
\* true exactly when used is false and the time of the call is strictly
\* before expires_at; a call at the instant expires_at returns false.
C11_IsValidIff ==
    \A kind \in {"reset_token", "invitation"} :
        valid_resp[kind].called =>
            /\ valid_resp[kind].result =
                    (~valid_resp[kind].used /\ valid_resp[kind].t < valid_resp[kind].expires_at)
            /\ valid_resp[kind].t = valid_resp[kind].expires_at
                    => ~valid_resp[kind].result

\* Both models were asked about an unused row at the instant of its expiry.
C11_Witness ==
    \A kind \in {"reset_token", "invitation"} :
        /\ valid_resp[kind].called
        /\ ~valid_resp[kind].used
        /\ valid_resp[kind].t = valid_resp[kind].expires_at
        /\ ~valid_resp[kind].result

\* ---------------------------------------------------------------- C12
\* A /register request ended with a committed account.
RegisterSucceeded(resp) == resp.route = "register" /\ resp.outcome = "redirect_login"

\* The flashed messages that report a duplicate username, and those that
\* report a duplicate identity (username or email).
UsernameExistsMessages ==
    {"Username already exists.",
     "Username already exists. Please choose a different username."}

DuplicateIdentityMessages == UsernameExistsMessages \cup {"Email already in use."}

\* The message of a request that the database gave up on (lock wait).
StorageMessages == {"An error occurred during registration. Please try again."}

\* Two completed /register requests for one username that ran concurrently.
ConcurrentRegistrations(c, d) ==
    /\ c # d
    /\ reg_resp[c].route = "register" /\ reg_resp[c].rival
    /\ reg_resp[d].route = "register" /\ reg_resp[d].rival
    /\ reg_resp[c].username = reg_resp[d].username

C13_EmailUniqueWhenPresent ==
    \A u, v \in DOMAIN users :
        (users[u].email # NoEmail /\ users[u].email = users[v].email) => u = v

\* ---------------------------------------------------------------- C14
\* C14: a request that delivers bearer tokens (POST /api/auth/login) or an
\* authenticated session user_id (POST /login, POST /verify-2fa) has
\* committed last_login = now for that user; a request whose commit fails
\* delivers neither.
C14_LoginRecordsTimestamp ==
    [][/\ \A c \in Clients :
            (sessions'[c].user_id # NoId /\ sessions'[c].user_id # sessions[c].user_id)
                => users'[sessions'[c].user_id].last_login = now
       /\ (login_resp' # login_resp /\ login_resp'.status = 200)
                => users'[login_resp'.user].last_login = now]_vars

\* ---------------------------------------------------------------- C15
\* A request completed a login of user u in this step: a browser session
\* became u's, or the API answered 200 with tokens of u minted now.
LoginCompleted(u) ==
    \/ \E c \in Clients : sessions'[c].user_id = u /\ sessions[c].user_id # u
    \/ /\ login_resp'.route = "api_login"
       /\ login_resp'.status = 200
       /\ login_resp'.user = u
       /\ login_resp'.access_token = generate_token(u, now)

\* C15: last_login of a user changes only in a step that completes a
\* successful login of that user; failed password checks, missing or wrong
\* TOTP codes, token refresh, token validation, registration (whose new row
\* has no last_login) and password reset leave it as it was.
C15_LastLoginOnlyByLogin ==
    [][/\ \A u \in DOMAIN users :
            users'[u].last_login # users[u].last_login => LoginCompleted(u)
       /\ \A u \in DOMAIN users' \ DOMAIN users :
            users'[u].last_login = NoTime]_vars

\* alice's password was reset and bob was asked for a TOTP code he got
\* wrong, and neither has a last_login other than the initial one.
C15_Witness ==
    /\ users[1].password_hash = generate_password_hash(PwNewA)
    /\ users[1].last_login = NoTime
    /\ login_resp.error = "Invalid 2FA code"
    /\ users[2].last_login = InitUsers[2].last_login
    /\ now > InitUsers[2].last_login

\* ---------------------------------------------------------------- C16
\* No account has this username or this email.
UnknownUsername(name) == UsersByUsernameOrEmail(name) = {}

\* An account has this username, and the password is not its password.
ExistingUsernameWrongPassword(name, password) ==
    /\ UserByUsername(name) # NoId
    /\ ~check_password(users[UserByUsername(name)], password)

\* C16: POST /login and POST /api/auth/login answer an unknown username
\* exactly as they answer an existing username with a wrong password,
\* whether or not the account has TOTP and whether or not a totp_code is sent.
C16_NoUsernameEnumeration ==
    \A n1, n2 \in LoginIds, pw1, pw2 \in LoginPasswords,
       code1, code2 \in TotpCodes \cup {NoCode} :
        (UnknownUsername(n1) /\ ExistingUsernameWrongPassword(n2, pw2))
            => /\ LoginResponse(n1, pw1) = LoginResponse(n2, pw2)
               /\ ApiLoginResponse(n1, pw1, code1) = ApiLoginResponse(n2, pw2, code2)

\* ---------------------------------------------------------------- C17
\* C17: a wrong code posted to /verify-2fa by a session that awaits the
\* second factor creates no authenticated session, and that login attempt
\* never becomes authenticated afterwards: no step gives a user_id to a
\* session that has had a code refused since its latest password check.
C17_BadCodeRejects ==
    [][\A c \in Clients :
        /\ (login_trace'[c].bad_code /\ ~login_trace[c].bad_code)
                => sessions'[c].user_id = NoId
        /\ (sessions'[c].user_id # NoId /\ sessions[c].user_id = NoId)
                => ~login_trace[c].bad_code]_vars


\* ============================================================= note claims
\* What the stated resolution order gives for note id n and user u.
StatedAccess(n, u) ==
    IF n \notin DOMAIN notes THEN {AccessResult(NoId, FALSE, FALSE)}
    ELSE IF notes[n].owner_id = u THEN {AccessResult(n, TRUE, TRUE)}
    ELSE IF SharesOf(n, u) # {}
    THEN {AccessResult(n, TRUE, shares[s].can_edit) : s \in SharesOf(n, u)}
    ELSE {AccessResult(n, FALSE, FALSE)}

\* C18: check_note_access(note_id, user) returns (None, False, False) when no
\* note has the id; (note, True, True) when the user owns the note, whatever
\* share rows exist; otherwise (note, True, share.can_edit) of a share row of
\* the note and the user when there is one; otherwise (note, False, False).
C18_AccessResolution ==
    \A n \in NoteInputs, u \in UserIds : check_note_access(n, u) \in StatedAccess(n, u)

\* The ownership-only fields of a note row.
OwnerFields(note) == <<note.pinned, note.favorite, note.archived>>

\* C19: a step of a note route (toggle-pin, toggle-favorite, toggle-archive,
\* interactive edit, API update) changes the pinned, favorite or archived
\* flag of a note only when the request is made by the note's owner; a
\* grantee, even with can_edit, never changes them.
C19_OwnerOnlyFields ==
    [][\A n \in DOMAIN notes \cap DOMAIN notes' :
          OwnerFields(notes'[n]) # OwnerFields(notes[n])
              => note_resp'.user = notes[n].owner_id]_vars

DeleteRoutes == {"delete_note", "api_delete_note"}

\* The answers of the two delete routes to a caller who is not the owner.
DeleteRejections ==
    {"You can only delete notes you own.", "Only the note owner can delete it"}

ReadOnlyGrantee(n, u) ==
    /\ n \in DOMAIN notes
    /\ notes[n].owner_id # u
    /\ SharesOf(n, u) # {}
    /\ \A s \in SharesOf(n, u) : ~shares[s].can_edit

\* The routes that change the title, body and tags of a note.
EditRoutes == {"edit_note", "api_update_note"}

\* The answers of the edit routes to a caller who may not edit.
EditRejections ==
    {"You don't have permission to edit this note.",
     "You do not have edit permissions for this note"}

\* C21: a request of a grantee whose grant has can_edit = false is answered
\* with the note when it reads (GET /api/notes/<id>: 200, can_edit false), and
\* with the rejection when it edits (edit_note, API PUT/PATCH), which leaves
\* the note row as it was.
C21_ReadOnlyGrantee ==
    [][\A n \in DOMAIN notes, u \in UserIds :
          (/\ ReadOnlyGrantee(n, u)
           /\ note_resp' # note_resp
           /\ note_resp'.user = u
           /\ note_resp'.note = n)
              => /\ note_resp'.route = "api_get_note"
                    => note_resp'.status = 200 /\ note_resp'.can_edit = <<FALSE>>
                 /\ note_resp'.route \in EditRoutes
                    => notes' = notes /\ note_resp'.msg \in EditRejections]_vars

\* C22: in every reachable state, also after two concurrent share requests
\* for the same note and user, share_notes holds at most one row for each
\* pair of note_id and shared_with_id.
C22_OneGrantPerPair ==
    \A n \in NoteInputs, u \in UserIds : Cardinality(SharesOf(n, u)) <= 1

\* C23: in every reachable state no row of share_notes names as shared_with_id
\* the owner of the note it refers to.
C23_NoGrantToOwner ==
    \A s \in DOMAIN shares :
        shares[s].note_id \in DOMAIN notes
            => shares[s].shared_with_id # notes[shares[s].note_id].owner_id

\* C24: once a note is deleted (delete_note or api_delete_note) no row of
\* share_notes refers to it: every grant row refers to a stored note, and the
\* access check of a deleted note reports no note.
C24_GrantsDieWithNote ==
    /\ \A s \in DOMAIN shares : shares[s].note_id \in DOMAIN notes
    /\ \A n \in NoteInputs \ DOMAIN notes, u \in UserIds :
            check_note_access(n, u) = AccessResult(NoId, FALSE, FALSE)

\* ================================================= cached principal claims

\* The fields of a users row that a session caches
CachedFields(user) == cache_user_in_session(user)

\* The next current_user() of session c returns the stored values.
NextCurrentUserIsStored(c) ==
    current_user(c) # NoId
        => CurrentUserObject(c) = CachedFields(users[current_user(c)])

\* A request of session c that writes a cached field of its user
ProfileChangeRequest(c) ==
    \/ EditProfileCommit(c)
    \/ ToggleTheme(c)
    \/ \E secret \in TotpSecrets, code \in TotpCodes : Setup2FA(c, secret, code)
    \/ Disable2FA(c)

\* C25: every request that changes the username, email, theme or 2FA secret
\* of the session's user (edit_profile, toggle_theme, setup_2fa, disable_2fa)
\* leaves the session without a cached user entry, so that the next
\* current_user() of that session returns the stored values.
C25_ChangeDropsCachedUser ==
    [][\A c \in Clients :
            \/ users' = users
            \/ ~ProfileChangeRequest(c)
            \/ /\ user_cache'[c] = NoCache
               /\ NextCurrentUserIsStored(c)']_vars

\* The same for the two requests that call invalidate_user_cache().
C25_InvalidatingRequests ==
    [][\A c \in Clients :
            \/ users' = users
            \/ ~(EditProfileCommit(c) \/ ToggleTheme(c))
            \/ /\ user_cache'[c] = NoCache
               /\ NextCurrentUserIsStored(c)']_vars

\* C26: the admin check of /admin/users decides on the username the users
\* table holds when the request runs, not on the one cached in the session,
\* also after another session renamed the user.
C26_AdminCheckReadsStore ==
    [][\A c \in Clients :
            \/ ~AdminUsers(c)
            \/ (reg_resp'[c].outcome = "page")
                    <=> (users[current_user(c)].username = AdminName)]_vars

\* ======================================================= refresh token claims

\* C27: a successful POST /api/auth/refresh answers with an access token of
\* the token's user and with nothing else that is minted; the refresh token
\* it was given is accepted again at every later time before its exp, and
\* at no time from its exp on.
C27_RefreshTokenNeverRotated ==
    (jwt_resp.route = "api_refresh" /\ jwt_resp.status = 200)
        => /\ jwt_resp.access_token = generate_token(jwt_resp.token.user_id, jwt_resp.t)
           /\ jwt_resp.access_token.type = "access"
           /\ \A t \in jwt_resp.t .. MaxTime + 1 :
                    refresh_access_token(jwt_resp.token, t).success
                        <=> t < jwt_resp.token.exp

\* A refresh token was used, time has passed, and it has not expired.
C27_Witness ==
    /\ jwt_resp.route = "api_refresh"
    /\ jwt_resp.status = 200
    /\ jwt_resp.t < now
    /\ now < jwt_resp.token.exp
    /\ jwt_resp.token.exp <= MaxTime + 1

\* A token validate_token has to turn down: bad signature, exp reached, or
\* a type that is neither access nor refresh.
BadToken(token, t) ==
    \/ ~token.sig_ok
    \/ token.exp <= t
    \/ token.type = "other"

\* C28: validate_token returns its triple for every token, and for a token
\* with a bad signature, a passed exp or a wrong type the triple is
\* (False, None, error) with an error message.
C28_ValidateTokenNeverRaises ==
    jwt_resp.route = "validate_token"
        => LET v == validate_token(jwt_resp.token, jwt_resp.t)
           IN  /\ DOMAIN v = {"is_valid", "user_id", "error"}
               /\ jwt_resp.user_id = v.user_id /\ jwt_resp.error = v.error
               /\ BadToken(jwt_resp.token, jwt_resp.t)
                    => (~v.is_valid /\ v.user_id = NoId /\ v.error # "")

\* validate_token was handed a signed token at its exp, and a signed token
\* of another type.
C28_Witness ==
    /\ jwt_resp.route = "validate_token"
    /\ jwt_resp.token.sig_ok
    /\ jwt_resp.token.user_id \in UserIds
    /\ \/ jwt_resp.token.exp = jwt_resp.t /\ jwt_resp.token.type = "access"
       \/ jwt_resp.token.exp > jwt_resp.t /\ jwt_resp.token.type = "other"

\* ==================================================== password policy claims

\* C29: set_password raises and leaves the user as it was whenever the
\* policy rejects the password, and on every calling path (startup,
\* registration, change password, password reset) a stored password_hash is
\* only ever replaced or created with the hash of a password the policy
\* accepts.
C29_RejectedPasswordNeverStored ==
    /\ [](\A u \in DOMAIN users, p \in PasswordInputs :
            password_policy_errors(p) # <<>>
                => (set_password(users[u], p).raised
                        /\ set_password(users[u], p).user = users[u]))
    /\ [][\A u \in DOMAIN users' :
            (u \notin DOMAIN users \/ users'[u].password_hash # users[u].password_hash)
                => \E p \in PasswordInputs :
                        /\ password_policy_errors(p) = <<>>
                        /\ users'[u].password_hash = generate_password_hash(p)]_vars

\* Alice asked for a new password the policy rejects: the page shows the
\* policy's first error and her hash is the old one.
C29_Witness ==
    /\ reg_resp[1].route = "change_password"
    /\ reg_resp[1].msg \in {password_policy_errors(p)[1] :
                                p \in {q \in PasswordInputs : password_policy_errors(q) # <<>>}}
    /\ users[1].password_hash = generate_password_hash(PwAlice)

\* What the policy asks of a password: length, the four kinds of character,
\* and no whitespace.
SatisfiesPolicy(p) ==
    /\ p # PyNonePassword
    /\ p.len >= PASSWORD_POLICY_MIN_LENGTH
    /\ p.lower /\ p.upper /\ p.digit /\ p.punct
    /\ ~p.space

\* C30: password_policy_errors(p) is the empty list exactly when p has at
\* least 12 characters, a lowercase letter, an uppercase letter, a digit and
\* a symbol, and no whitespace; None and "" included.
C30_NoErrorsIffPolicySatisfied ==
    \A i \in DOMAIN policy_resp :
        (policy_resp[i].errors = <<>>) <=> SatisfiesPolicy(policy_resp[i].password)

\* The function was called with None and returned the length error first.
C30_Witness ==
    /\ policy_resp # <<>>
    /\ policy_resp[1].password = PyNonePassword
    /\ Len(policy_resp[1].errors) = 5
    /\ policy_resp[1].errors[1] = "Password must be at least 12 characters long."

\* The function was called with a password that satisfies every rule.
AcceptedPasswordChecked ==
    /\ policy_resp # <<>>
    /\ SatisfiesPolicy(policy_resp[1].password)
    /\ policy_resp[1].errors = <<>>

\* ===================================================== second factor claims

\* The codes of the current time step and of the two steps next to it
CodesAround(secret, t) ==
    {TotpAt(secret, t - 1), TotpAt(secret, t), TotpAt(secret, t + 1)}

\* C31: verify_totp accepts every code for a user without a TOTP secret; for
\* a user with a secret it accepts a code exactly when it is the one-time
\* code of the current time step or of a step next to it.
C31_VerifyTotpWindow ==
    \A u \in DOMAIN users, code \in TotpCodes :
        verify_totp(users[u], code, now)
            <=> \/ users[u].totp_secret = NoId
                \/ code \in CodesAround(users[u].totp_secret, now)

\* ======================================================== invitation claims

C33_DisableNeedsValidCode ==
    [][\A c \in Clients, code \in DisableCodes :
            /\ Disable2FARequest(c, code)
            /\ users[current_user(c)].totp_secret # NoId
            /\ \/ code = NoCode
               \/ ~verify_totp(users[current_user(c)], code, now)
            => users'[current_user(c)].totp_secret
                    = users[current_user(c)].totp_secret]_vars

\* =================================================== login after a reset

\* The password check of POST /login accepts the pair.
PasswordAccepted(username, password) ==
    LoginResponse(username, password).status = 302

\* C34: when a reset with a policy-compliant new password completes, a login
\* of that user with the new password passes the password check and a login
\* with the password the user had before (a different one) is answered with
\* "Invalid username or password."; and every login step passes the password
\* check, and opens a session or awaits the second factor when its commit is
\* not kept waiting, exactly when the password is the stored one.
C34_LoginAfterReset ==
    [][/\ \A c \in Clients :
            (req[c].pc = "reset_commit" /\ req'[c].pc = "idle"
                    /\ password_policy_errors(req[c].pw) = <<>>)
                => \A name \in {"alice", "bob"}, new \in ReloginNewPasswords :
                        (name = users[req[c].user].username /\ new = req[c].pw)
                            => /\ PasswordAccepted(name, new)'
                               /\ \A old \in ReloginPasswords :
                                    (old # new /\ check_password(users[req[c].user], old))
                                        => LoginResponse(name, old)'.flash
                                                = "Invalid username or password."
       /\ \A c \in Clients, name \in {"alice", "bob"}, pw \in ReloginPasswords :
            Login(c, name, pw)
                => LET u == UserByUsername(name)
                   IN  IF check_password(users[u], pw)
                       THEN /\ login_trace'[c].pw_user = u
                            /\ db_writer = NoId
                                  => \/ sessions'[c].user_id = u
                                     \/ sessions'[c].pre_2fa_user_id = u
                       ELSE UNCHANGED <<sessions, login_trace>>]_vars

\* alice's password was reset to the new one and she is logged in with it.
C34_Witness ==
    /\ \E i \in DOMAIN reset_tokens :
            reset_tokens[i].used /\ reset_tokens[i].user_id = 1
    /\ check_password(users[1], PwNewA)
    /\ sessions[1].user_id = 1
    /\ login_trace[1].pw_user = 1

\* ===================================================== renaming an account

\* C35: edit_profile never answers a rename with the storage layer's
\* exception: a rename to a name another user holds, also one that collides
\* only after stripping or through a concurrent rename or registration, is
\* answered with the "Username already exists" page.
C35_RenameCollisionRejected ==
    \A c \in Clients :
        reg_resp[c].route = "edit_profile" => reg_resp[c].msg # "IntegrityError"

\* ===================================================== token lifetimes

\* C36: no step deletes a reset token or an invitation, turns its used flag
\* from true to false or changes its expires_at; so a token that is invalid
\* (used or expired) is invalid after every step.
C36_InvalidTokenStaysInvalid ==
    [][/\ \A i \in DOMAIN reset_tokens :
            /\ i \in DOMAIN reset_tokens'
            /\ reset_tokens[i].used => reset_tokens'[i].used
            /\ reset_tokens'[i].expires_at = reset_tokens[i].expires_at
            /\ ~is_valid(reset_tokens[i], now) => ~is_valid(reset_tokens'[i], now')
       /\ \A i \in DOMAIN invitations :
            /\ i \in DOMAIN invitations'
            /\ invitations[i].used => invitations'[i].used
            /\ invitations'[i].expires_at = invitations[i].expires_at
            /\ ~Invitation_is_valid(invitations[i], now)
                    => ~Invitation_is_valid(invitations'[i], now')]_vars

\* A reset token was spent, a later one ran out unused, and the invitation was
\* redeemed.
C36_Witness ==
    /\ \E i, j \in DOMAIN reset_tokens :
            /\ i < j
            /\ reset_tokens[i].used /\ redeemed[i] = 1
            /\ ~reset_tokens[j].used /\ now >= reset_tokens[j].expires_at
    /\ invitations[1].used

\* ============================================== the pending second factor

\* C37: no session holds the pending second-factor marker pre_2fa_user_id
\* together with an authenticated user_id.
C37_PendingMarkerExcludesLogin ==
    \A c \in Clients :
        ~(sessions[c].pre_2fa_user_id # NoId /\ sessions[c].user_id # NoId)

\* ==================================================== one user per identifier

\* The strings stored as a username or as an email of some user
StoredIdentifiers ==
    {users[u].username : u \in DOMAIN users}
        \cup ({users[u].email : u \in DOMAIN users} \ {NoEmail})

\* C38: every identifier is the username or the email of at most one user, so
\* the lookup of authenticate_user never finds two rows.
C38_IdentifierNamesOneUser ==
    \A id \in StoredIdentifiers : Cardinality(UsersByUsernameOrEmail(id)) <= 1

\* ================================================ reset tokens and TOTP

\* A request of client c starts the transaction that issues a token.
IssueBegins(c) == req[c].pc # "issue_commit" /\ req'[c].pc = "issue_commit"

\* C39: through /forgot-password and /verify-2fa-reset, the issuing of a
\* reset token for a user with a TOTP secret begins only in a
\* verify_2fa_reset request of a session that holds that user's marker and
\* submits a code verify_totp accepts; a forgot_password request for such a
\* user begins none and changes no token; and a token row appears only at the
\* commit of an issuing transaction, for its user.
C39_TotpUserTokenNeedsCode ==
    [][/\ \A c \in Clients :
            (IssueBegins(c) /\ users[req'[c].user].totp_secret # NoId)
                => /\ sessions[c].reset_2fa_user_id = req'[c].user
                   /\ sessions'[c].reset_2fa_user_id = NoId
                   /\ \E code \in TotpCodes :
                        /\ verify_totp(users[req'[c].user], code, now)
                        /\ Verify2FAReset(c, code)
       /\ \A c \in Clients, name \in Usernames :
            (/\ UserByUsername(name) # NoId
             /\ users[UserByUsername(name)].totp_secret # NoId
             /\ ForgotPassword(c, name))
                => ~IssueBegins(c) /\ reset_tokens' = reset_tokens
       /\ reset_tokens' # reset_tokens
            => \E c \in Clients :
                /\ req[c].pc = "issue_commit"
                /\ Len(reset_tokens') = Len(reset_tokens) + 1
                /\ reset_tokens'[Len(reset_tokens')].user_id = req[c].user]_vars

\* A token of bob, who has a TOTP secret, exists, and the session that asked
\* for it no longer holds his marker.
C39_Witness ==
    /\ \E i \in DOMAIN reset_tokens :
            /\ reset_tokens[i].user_id = UserByUsername("bob")
            /\ users[reset_tokens[i].user_id].totp_secret # NoId
    /\ \E c \in Clients : sessions[c].reset_2fa_user_id = NoId

\* C40: the answer of /forgot-password is the same for every submitted
\* username: for a user without TOTP, a user with TOTP and a name no user has.
C40_ForgotPasswordHidesExistence ==
    \A name, other \in Usernames :
        ForgotPasswordResponse(name) = ForgotPasswordResponse(other)

=============================================================================
